---- MODULE Spec2Model ----
(***************************************************************************)
(* Checklist adaptation and evaluation engine of the ECOE simulator:       *)
(*   simulador/text_utils.py          transcript preprocessing              *)
(*   simulador/checklist_loader_v2.py checklist load, validation, indices   *)
(*   simulador/case_adapter_v2.py     adaptation of the checklist to a case *)
(*   simulador/evaluator_v3.py        item matching and aggregation         *)
(* Text is modelled character by character: a Python str is a TLA+ string, *)
(* a Python list is a sequence, a dict is a record or a sequence of pairs.  *)
(***************************************************************************)
EXTENDS Integers, Sequences, FiniteSets, TLC

(***************************************************************************)
(* Characters.  The alphabet of the model: the Spanish letters, digits,    *)
(* the underscore, white space and the punctuation the transcripts use.    *)
(***************************************************************************)
UpperChars == "ABCDEFGHIJKLMNOPQRSTUVWXYZÁÉÍÓÚÑÜ"
LowerChars == "abcdefghijklmnopqrstuvwxyzáéíóúñü"
AccentedChars == "áéíóúñüÁÉÍÓÚÑÜ"
UnaccentedChars == "aeiounuAEIOUNU"
DigitChars == "0123456789"
SpaceChars == " \n\t"

CharAt(s, i) == SubSeq(s, i, i)

\* the least element of a non-empty set of integers
MinOf(S) == CHOOSE m \in S : \A n \in S : m <= n
MaxOf(S) == CHOOSE m \in S : \A n \in S : m >= n

\* position of the first occurrence of character c in s, 0 when absent
IndexOf(s, c) ==
    LET hits == {i \in 1..Len(s) : CharAt(s, i) = c}
    IN  IF hits = {} THEN 0 ELSE MinOf(hits)

\* the characters of a string as a set
CharsOf(s) == {CharAt(s, i) : i \in 1..Len(s)}

UpperSet == CharsOf(UpperChars)
AccentedSet == CharsOf(AccentedChars)
SpaceSet == CharsOf(SpaceChars)
DigitSet == CharsOf(DigitChars)
WordCharSet == CharsOf(LowerChars) \cup UpperSet \cup DigitSet \cup {"_"}

LowerOf == [c \in UpperSet |-> CharAt(LowerChars, IndexOf(UpperChars, c))]
UnaccentedOf == [c \in AccentedSet |-> CharAt(UnaccentedChars, IndexOf(AccentedChars, c))]

\* str.lower() on one character
LowerChar(c) == IF c \in UpperSet THEN LowerOf[c] ELSE c

\* unicodedata.normalize("NFD", c) followed by the removal of combining marks
StripAccentChar(c) == IF c \in AccentedSet THEN UnaccentedOf[c] ELSE c

\* \s of the re module
IsSpace(c) == c \in SpaceSet

\* \w of the re module (UNICODE): letters, digits and the underscore
IsWordChar(c) == c \in WordCharSet

IsDigit(c) == c \in DigitSet

RECURSIVE ConcatStr(_, _, _)
\* "".join(parts[i] for i in range(lo, hi + 1)), halving the range
ConcatStr(parts, lo, hi) ==
    IF lo > hi THEN ""
    ELSE IF lo = hi THEN parts[lo]
    ELSE LET mid == (lo + hi) \div 2
         IN  ConcatStr(parts, lo, mid) \o ConcatStr(parts, mid + 1, hi)

\* "".join(parts)
JoinChars(parts) == ConcatStr(parts, 1, Len(parts))

\* str.lower()
Lower(s) == JoinChars([i \in 1..Len(s) |-> LowerChar(CharAt(s, i))])

\* str.lstrip()
LStrip(s) ==
    LET solid == {i \in 1..Len(s) : ~IsSpace(CharAt(s, i))}
    IN  IF solid = {} THEN "" ELSE SubSeq(s, MinOf(solid), Len(s))

\* str.rstrip()
RStrip(s) ==
    LET solid == {i \in 1..Len(s) : ~IsSpace(CharAt(s, i))}
    IN  IF solid = {} THEN "" ELSE SubSeq(s, 1, MaxOf(solid))

\* str.strip()
Strip(s) == LStrip(RStrip(s))

\* str.startswith(p)
StartsWith(s, p) == Len(s) >= Len(p) /\ SubSeq(s, 1, Len(p)) = p

\* sub in s
Contains(s, sub) ==
    \E i \in 1..(Len(s) + 1) :
        i + Len(sub) - 1 <= Len(s) /\ SubSeq(s, i, i + Len(sub) - 1) = sub

\* \b of the re module at the gap before position i (1 .. Len(s)+1)
WordBoundary(s, i) ==
    LET before == i > 1 /\ IsWordChar(CharAt(s, i - 1))
        after == i <= Len(s) /\ IsWordChar(CharAt(s, i))
    IN  before # after

\* the keyword searched as a bare substring: w in s
SearchWord_substring(w, s) == Contains(s, w)

\* re.search(r'\b' + re.escape(w) + r'\b', s)
SearchWord(w, s) ==
    \E i \in 1..(Len(s) + 1) :
        /\ i + Len(w) - 1 <= Len(s)
        /\ SubSeq(s, i, i + Len(w) - 1) = w
        /\ WordBoundary(s, i)
        /\ WordBoundary(s, i + Len(w))

\* sep.join(lines)
Join(sep, lines) ==
    LET F(i) == IF i = 1 THEN lines[i] ELSE sep \o lines[i]
    IN  JoinChars([i \in 1..Len(lines) |-> F(i)])

(***************************************************************************)
(* text_utils.normalize_text                                               *)
(***************************************************************************)
PunctToSpaceChar(c) == IF IsWordChar(c) \/ IsSpace(c) THEN c ELSE " "

\* re.sub(r"\s+", " ", s): a run of white space becomes one space
CollapseSpaces(s) ==
    LET F(i) == IF ~IsSpace(CharAt(s, i)) THEN CharAt(s, i)
                ELSE IF i > 1 /\ IsSpace(CharAt(s, i - 1)) THEN ""
                ELSE " "
    IN  JoinChars([i \in 1..Len(s) |-> F(i)])

\* normalize_text with the strip done before the punctuation is replaced
normalize_text_strip_first(text) ==
    IF text = "" THEN ""
    ELSE LET lowered == Lower(text)
             unaccented == JoinChars([i \in 1..Len(lowered) |->
                                        StripAccentChar(CharAt(lowered, i))])
             stripped == Strip(unaccented)
             nopunct == JoinChars([i \in 1..Len(stripped) |->
                                     PunctToSpaceChar(CharAt(stripped, i))])
         IN  CollapseSpaces(nopunct)

normalize_text(text) ==
    IF text = "" THEN ""
    ELSE LET lowered == Lower(text)
             unaccented == JoinChars([i \in 1..Len(lowered) |->
                                        StripAccentChar(CharAt(lowered, i))])
             nopunct == JoinChars([i \in 1..Len(unaccented) |->
                                     PunctToSpaceChar(CharAt(unaccented, i))])
             collapsed == CollapseSpaces(nopunct)
         IN  Strip(collapsed)

(***************************************************************************)
(* text_utils.extract_student_lines                                        *)
(***************************************************************************)
\* str.splitlines() for the line terminator "\n"
SplitLines(s) ==
    LET ends == {i \in 1..Len(s) : CharAt(s, i) = "\n"}
                    \cup (IF s # "" /\ CharAt(s, Len(s)) # "\n" THEN {Len(s) + 1} ELSE {})
        StartOf(e) == LET prev == {p \in ends : p < e}
                      IN  IF prev = {} THEN 1 ELSE MaxOf(prev) + 1
        Nth(k) == CHOOSE e \in ends : Cardinality({p \in ends : p < e}) = k - 1
    IN  [k \in 1..Cardinality(ends) |-> SubSeq(s, StartOf(Nth(k)), Nth(k) - 1)]

\* the text after a speaker tag: lstrip, an optional ":" and lstrip again
TagContent(line, tag) ==
    LET content == LStrip(SubSeq(line, Len(tag) + 1, Len(line)))
    IN  IF StartsWith(content, ":")
        THEN LStrip(SubSeq(content, 2, Len(content)))
        ELSE content

\* whether the stripped line starts with one of the tags
HasTag(line, tags) == \E k \in 1..Len(tags) : StartsWith(Strip(line), tags[k])

\* the text of a tagged line after its tag
ContentOf(line, tags) ==
    LET k == MinOf({m \in 1..Len(tags) : StartsWith(Strip(line), tags[m])})
    IN  TagContent(Strip(line), tags[k])

\* the non-empty contents of the lines that start with one of the tags
TaggedLines(raw, tags) ==
    LET Keep(line) == HasTag(line, tags) /\ ContentOf(line, tags) # ""
        kept == SelectSeq(raw, Keep)
    IN  [k \in 1..Len(kept) |-> ContentOf(kept[k], tags)]

StudentTags == <<"[ESTUDIANTE]", "[STUDENT]">>

extract_student_lines(transcript) ==
    LET student_lines == TaggedLines(SplitLines(transcript), StudentTags)
    IN  IF Len(student_lines) = 0 /\ Strip(transcript) # ""
        THEN <<Strip(transcript)>>
        ELSE student_lines

(***************************************************************************)
(* Checklist documents (the parsed JSON of master-checklist-v2.json).      *)
(* A document is a record: keys is the set of top-level keys present,      *)
(* blocks and items the two lists.  An optional field that is missing from *)
(* a JSON object has the value Absent.                                     *)
(***************************************************************************)
Absent == "<absent>"

B7_BLOCK_ID == "B7_ANAMNESIS_APARATOS"

Block(block_id, max_points) == [block_id |-> block_id, max_points |-> max_points]

Item(id, label, block_id, subsection, points, no_applicable, regex, keywords) ==
    [id |-> id, label |-> label, block_id |-> block_id, subsection |-> subsection,
     points |-> points, no_applicable |-> no_applicable,
     regex |-> regex, keywords |-> keywords]

\* the JSON number num / 10^decimals, e.g. 57.2 is Decimal(572, 1)
Decimal(num, decimals) == [num |-> num, decimals |-> decimals]

RECURSIVE SumRange(_, _, _)
\* sum(terms[i] for i in range(lo, hi + 1)), halving the range
SumRange(terms, lo, hi) ==
    IF lo > hi THEN 0
    ELSE IF lo = hi THEN terms[lo]
    ELSE LET mid == (lo + hi) \div 2
         IN  SumRange(terms, lo, mid) + SumRange(terms, mid + 1, hi)

\* sum(terms)
Sum(terms) == SumRange(terms, 1, Len(terms))

\* set(seq)
Range(seq) == {seq[i] : i \in 1..Len(seq)}

\* sum(it["points"] for it in items): the no_applicable filter forgotten
SumPoints_unfiltered(items) ==
    LET F(i) == items[i].points
    IN  Sum([i \in 1..Len(items) |-> F(i)])

\* sum(it["points"] for it in items if not it.get("no_applicable", False))
SumPoints(items) ==
    LET F(i) == IF items[i].no_applicable THEN 0 ELSE items[i].points
    IN  Sum([i \in 1..Len(items) |-> F(i)])

\* set(b["block_id"] for b in blocks) and set(it["id"] for it in items)
BlockIds(blocks) == {blocks[i].block_id : i \in 1..Len(blocks)}
ItemIds(items) == {items[i].id : i \in 1..Len(items)}

(***************************************************************************)
(* checklist_loader_v2.ChecklistLoaderV2                                   *)
(***************************************************************************)
\* _validate_structure without the check of the block references of the items
validate_structure_no_reference_check(data) ==
    IF "metadata" \notin data.keys THEN "JSON falta key 'metadata'"
    ELSE IF "blocks" \notin data.keys THEN "JSON falta key 'blocks'"
    ELSE IF "items" \notin data.keys THEN "JSON falta key 'items'"
    ELSE IF Len(data.blocks) # Cardinality(BlockIds(data.blocks)) THEN "block_id duplicados detectados"
    ELSE IF Len(data.items) # Cardinality(ItemIds(data.items)) THEN "item.id duplicados detectados"
    ELSE ""

\* _validate_structure: the message of the ValueError raised, "" when valid
validate_structure(data) ==
    IF "metadata" \notin data.keys THEN "JSON falta key 'metadata'"
    ELSE IF "blocks" \notin data.keys THEN "JSON falta key 'blocks'"
    ELSE IF "items" \notin data.keys THEN "JSON falta key 'items'"
    ELSE IF Len(data.blocks) # Cardinality(BlockIds(data.blocks)) THEN "block_id duplicados detectados"
    ELSE IF Len(data.items) # Cardinality(ItemIds(data.items)) THEN "item.id duplicados detectados"
    ELSE LET block_ids_set == BlockIds(data.blocks)
             bad == {i \in 1..Len(data.items) :
                        \/ data.items[i].block_id = Absent
                        \/ data.items[i].block_id \notin block_ids_set}
         IN  IF bad = {} THEN ""
             ELSE LET i == CHOOSE m \in bad : \A n \in bad : m <= n
                  IN  IF data.items[i].block_id = Absent
                      THEN "Item sin block_id"
                      ELSE "Item referencia bloque inexistente"

\* _build_items_by_block: per block id its items in list order
build_items_by_block(items) ==
    [b \in {items[i].block_id : i \in 1..Len(items)} |->
        LET InBlock(it) == it.block_id = b
        IN  SelectSeq(items, InBlock)]

\* _build_items_by_subsection: only the items with a non-empty subsection
build_items_by_subsection(items) ==
    [s \in {items[i].subsection : i \in 1..Len(items)} \ {Absent, ""} |->
        LET InSubsection(it) == it.subsection = s
        IN  SelectSeq(items, InSubsection)]

\* re.compile(pattern_str, re.IGNORECASE) raises re.error: the patterns of
\* the model are literals, which compile, and patterns with an unclosed "("
CompileFails(pattern_str) ==
    Contains(pattern_str, "(") /\ ~Contains(pattern_str, ")")

\* re.compile(pattern_str, re.IGNORECASE) raises OverflowError ("the
\* repetition number is too large"), which is not an re.error: the patterns
\* with a repetition count of 2^32
CompileOverflows(pattern_str) == Contains(pattern_str, "{4294967296}")

\* _precompile_regex: the message of the exception that leaves it, "" when
\* none; only re.error is caught
precompile_error(items) ==
    IF \E i \in 1..Len(items) : \E k \in 1..Len(items[i].regex) :
          CompileOverflows(items[i].regex[k])
    THEN "the repetition number is too large"
    ELSE ""

\* __init__: the message of the exception raised, "" when none
init_error(data) ==
    IF validate_structure(data) # "" THEN validate_structure(data)
    ELSE precompile_error(data.items)

\* _precompile_regex: per item the patterns that compile, in declared order
precompile_regex(items) ==
    LET Compiles(p) == ~CompileFails(p)
    IN  [id \in ItemIds(items) |->
            LET it == CHOOSE x \in Range(items) : x.id = id
            IN  SelectSeq(it.regex, Compiles)]

NoLoader == [kind |-> "none"]

\* __init__ after a successful validation
NewLoader(data) ==
    [kind |-> "loader",
     metadata |-> data.metadata,
     blocks |-> data.blocks,
     items |-> data.items,
     blocks_by_id |-> [b \in BlockIds(data.blocks) |->
                          CHOOSE x \in Range(data.blocks) : x.block_id = b],
     items_by_id |-> [id \in ItemIds(data.items) |->
                          CHOOSE x \in Range(data.items) : x.id = id],
     items_by_block |-> build_items_by_block(data.items),
     items_by_subsection |-> build_items_by_subsection(data.items),
     compiled_regex |-> precompile_regex(data.items)]

\* the warnings a loader holds about dropped patterns: the except branch of
\* _precompile_regex is a bare pass and the loader has no attribute for them
recorded_warnings(ld) == IF "warnings" \in DOMAIN ld THEN ld.warnings ELSE {}

\* get_items_for_block, get_items_for_subsection, get_compiled_regex
get_items_for_block(ld, block_id) ==
    IF block_id \in DOMAIN ld.items_by_block THEN ld.items_by_block[block_id] ELSE << >>

get_items_for_subsection(ld, subsection) ==
    IF subsection \in DOMAIN ld.items_by_subsection
    THEN ld.items_by_subsection[subsection] ELSE << >>

get_compiled_regex(ld, item_id) ==
    IF item_id \in DOMAIN ld.compiled_regex THEN ld.compiled_regex[item_id] ELSE << >>

\* the values a lookup returns to its caller: None, a dict, a list
PyNone == [type |-> "None"]
PyDict(d) == [type |-> "dict", value |-> d]
PyList(l) == [type |-> "list", value |-> l]

\* get_block with an empty dict as the default of the dict lookup
get_block_or_empty(ld, block_id) ==
    IF block_id \in DOMAIN ld.blocks_by_id THEN PyDict(ld.blocks_by_id[block_id])
    ELSE PyDict(<< >>)

\* get_block: self.blocks_by_id.get(block_id)
get_block(ld, block_id) ==
    IF block_id \in DOMAIN ld.blocks_by_id THEN PyDict(ld.blocks_by_id[block_id])
    ELSE PyNone

(***************************************************************************)
(* Python float arithmetic (IEEE 754 binary64, round to nearest, ties to   *)
(* even) on the non-negative values of the threshold computation.  A float *)
(* is mant * 2^exp; mant is a natural number of at most MantissaBits + 1    *)
(* bits written as a sequence of limbs to the base LimbBase, least          *)
(* significant limb first.                                                  *)
(***************************************************************************)
MantissaBits == 53
LimbBits == 12
LimbBase == 2^LimbBits
ScaleLimbs == 6

\* int.bit_length()
BitLen(n) == Cardinality({k \in 0..30 : 2^k <= n})

BigOfInt(n) == <<n % LimbBase, (n \div LimbBase) % LimbBase, n \div (LimbBase * LimbBase)>>

BigToInt(a) ==
    LET F(i) == a[i] * LimbBase^(i - 1)
    IN  Sum([i \in 1..MaxOf({0} \cup {j \in 1..Len(a) : a[j] # 0}) |-> F(i)])

BigIsZero(a) == \A i \in 1..Len(a) : a[i] = 0

BigIsOdd(a) == Len(a) > 0 /\ a[1] % 2 = 1

BigBitLen(a) ==
    LET used == {i \in 1..Len(a) : a[i] # 0}
    IN  IF used = {} THEN 0
        ELSE LimbBits * (MaxOf(used) - 1) + BitLen(a[MaxOf(used)])

RECURSIVE BigTimesFrom(_, _, _, _)
\* a[i:] * k + carry
BigTimesFrom(a, k, i, carry) ==
    IF i > Len(a) THEN BigOfInt(carry)
    ELSE <<(a[i] * k + carry) % LimbBase>>
             \o BigTimesFrom(a, k, i + 1, (a[i] * k + carry) \div LimbBase)

\* a * k for a small integer k
BigTimesSmall(a, k) == BigTimesFrom(a, k, 1, 0)

\* a + 1
BigAddOne(a) ==
    LET open == {i \in 1..Len(a) : a[i] # LimbBase - 1}
        z == IF open = {} THEN Len(a) + 1 ELSE MinOf(open)
    IN  [i \in 1..(IF open = {} THEN Len(a) + 1 ELSE Len(a)) |->
            IF i < z THEN 0 ELSE IF i = z THEN (IF i <= Len(a) THEN a[i] ELSE 0) + 1 ELSE a[i]]

RECURSIVE BigDivFrom(_, _, _, _)
\* long division of (r * LimbBase^i + a[1..i]) by the small integer d
BigDivFrom(a, d, i, r) ==
    IF i = 0 THEN [quot |-> << >>, rem |-> r]
    ELSE LET t == r * LimbBase + a[i]
             rest == BigDivFrom(a, d, i - 1, t % d)
         IN  [quot |-> rest.quot \o <<t \div d>>, rem |-> rest.rem]

\* divmod(a, d) for a small integer d
BigDivSmall(a, d) == BigDivFrom(a, d, Len(a), 0)

\* a * LimbBase^m
BigShiftLimbs(a, m) == [i \in 1..m |-> 0] \o a

\* a >> e, and whether a bit that is set was shifted out
BigShiftRight(a, e) ==
    LET drop == e \div LimbBits
        high == SubSeq(a, drop + 1, Len(a))
        dv == BigDivSmall(high, 2^(e % LimbBits))
    IN  [quot |-> dv.quot,
         sticky |-> dv.rem # 0 \/ \E i \in 1..drop : i <= Len(a) /\ a[i] # 0]

\* n (with a non-zero fraction below it when sticky) rounded to MantissaBits
\* significant bits, ties to even: the mantissa and the bits dropped
RoundToMantissa(n, sticky) ==
    LET drop == BigBitLen(n) - MantissaBits
    IN  IF drop <= 0 THEN [mant |-> n, shift |-> 0]
        ELSE LET withGuard == BigShiftRight(n, drop - 1)
                 q == BigShiftRight(withGuard.quot, 1).quot
                 roundUp == /\ BigIsOdd(withGuard.quot)
                            /\ (withGuard.sticky \/ sticky \/ BigIsOdd(q))
             IN  [mant |-> IF roundUp THEN BigAddOne(q) ELSE q, shift |-> drop]

\* the float nearest to mant * 2^exp / d
RoundedQuotient(mant, exp, d) ==
    LET dv == BigDivSmall(BigShiftLimbs(mant, ScaleLimbs), d)
        r == RoundToMantissa(dv.quot, dv.rem # 0)
    IN  [mant |-> r.mant, exp |-> exp - ScaleLimbs * LimbBits + r.shift]

\* float(num / 10^decimals) as json.load reads the literal
FloatOfDecimal(dec) == RoundedQuotient(BigOfInt(dec.num), 0, 10^dec.decimals)

\* int * float
IntTimesFloat(k, x) ==
    LET r == RoundToMantissa(BigTimesSmall(x.mant, k), FALSE)
    IN  [mant |-> r.mant, exp |-> x.exp + r.shift]

\* float / int
FloatDivInt(x, d) == RoundedQuotient(x.mant, x.exp, d)

\* int / int (true division)
IntDivInt(n, d) == RoundedQuotient(BigOfInt(n), 0, d)

\* math.ceil(float)
CeilFloat(x) ==
    IF x.exp >= 0 THEN BigToInt(x.mant) * 2^x.exp
    ELSE LET sh == BigShiftRight(x.mant, -x.exp)
         IN  BigToInt(sh.quot) + (IF sh.sticky THEN 1 ELSE 0)

\* math.ceil(max_points_case * passing_percentage / 100): passing_percentage
\* is an int when the JSON literal has no fraction digits, a float otherwise
CeilPercentOf(max_points_case, passing_percentage) ==
    IF passing_percentage.decimals = 0
    THEN CeilFloat(IntDivInt(max_points_case * passing_percentage.num, 100))
    ELSE CeilFloat(FloatDivInt(
             IntTimesFloat(max_points_case, FloatOfDecimal(passing_percentage)), 100))

(***************************************************************************)
(* case_adapter_v2.CaseAdapterV2                                           *)
(***************************************************************************)
\* the dict literal SYMPTOM_TO_SUBSECTIONS as its (key, value) entries in
\* source order; for a key written twice the last entry is the one kept
SymptomEntries == <<
    <<"dolor torácico", <<"CARDIOVASCULAR", "RESPIRATORIO">>>>,
    <<"dolor retroesternal", <<"CARDIOVASCULAR">>>>,
    <<"dolor opresivo", <<"CARDIOVASCULAR">>>>,
    <<"dolor precordial", <<"CARDIOVASCULAR">>>>,
    <<"palpitaciones", <<"CARDIOVASCULAR">>>>,
    <<"síncope", <<"CARDIOVASCULAR", "NEUROLOGICO">>>>,
    <<"sincope", <<"CARDIOVASCULAR", "NEUROLOGICO">>>>,
    <<"mareo", <<"CARDIOVASCULAR", "NEUROLOGICO">>>>,
    <<"edemas", <<"CARDIOVASCULAR">>>>,
    <<"claudicación", <<"CARDIOVASCULAR">>>>,
    <<"claudicacion", <<"CARDIOVASCULAR">>>>,
    <<"ortopnea", <<"CARDIOVASCULAR", "RESPIRATORIO">>>>,
    <<"disnea paroxística", <<"CARDIOVASCULAR", "RESPIRATORIO">>>>,
    <<"disnea", <<"CARDIOVASCULAR", "RESPIRATORIO">>>>,
    <<"tos", <<"RESPIRATORIO">>>>,
    <<"expectoración", <<"RESPIRATORIO">>>>,
    <<"expectoracion", <<"RESPIRATORIO">>>>,
    <<"hemoptisis", <<"RESPIRATORIO">>>>,
    <<"sibilancias", <<"RESPIRATORIO">>>>,
    <<"dolor costal", <<"RESPIRATORIO">>>>,
    <<"dolor abdominal", <<"DIGESTIVO">>>>,
    <<"náuseas", <<"DIGESTIVO">>>>,
    <<"nauseas", <<"DIGESTIVO">>>>,
    <<"vómitos", <<"DIGESTIVO">>>>,
    <<"vomitos", <<"DIGESTIVO">>>>,
    <<"diarrea", <<"DIGESTIVO">>>>,
    <<"estreñimiento", <<"DIGESTIVO">>>>,
    <<"estrenimiento", <<"DIGESTIVO">>>>,
    <<"melenas", <<"DIGESTIVO">>>>,
    <<"hematoquecia", <<"DIGESTIVO">>>>,
    <<"hematemesis", <<"DIGESTIVO">>>>,
    <<"ictericia", <<"DIGESTIVO">>>>,
    <<"disfagia", <<"DIGESTIVO">>>>,
    <<"pirosis", <<"DIGESTIVO">>>>,
    <<"reflujo", <<"DIGESTIVO">>>>,
    <<"cefalea", <<"NEUROLOGICO">>>>,
    <<"mareo", <<"NEUROLOGICO", "CARDIOVASCULAR">>>>,
    <<"vértigo", <<"NEUROLOGICO">>>>,
    <<"vertigo", <<"NEUROLOGICO">>>>,
    <<"pérdida de conciencia", <<"NEUROLOGICO">>>>,
    <<"perdida de conciencia", <<"NEUROLOGICO">>>>,
    <<"confusión", <<"NEUROLOGICO">>>>,
    <<"confusion", <<"NEUROLOGICO">>>>,
    <<"convulsiones", <<"NEUROLOGICO">>>>,
    <<"paresia", <<"NEUROLOGICO">>>>,
    <<"parestesias", <<"NEUROLOGICO">>>>,
    <<"diplopia", <<"NEUROLOGICO">>>>,
    <<"disartria", <<"NEUROLOGICO">>>>,
    <<"disuria", <<"GENITOURINARIO">>>>,
    <<"polaquiuria", <<"GENITOURINARIO">>>>,
    <<"hematuria", <<"GENITOURINARIO">>>>,
    <<"incontinencia urinaria", <<"GENITOURINARIO">>>>,
    <<"dolor lumbar", <<"GENITOURINARIO">>>>,
    <<"dolor testicular", <<"GENITOURINARIO">>>>,
    <<"flujo vaginal", <<"GENITOURINARIO">>>>,
    <<"sangrado vaginal", <<"GENITOURINARIO">>>>,
    <<"dolor articular", <<"MUSCULOESQUELETICO">>>>,
    <<"artralgia", <<"MUSCULOESQUELETICO">>>>,
    <<"mialgia", <<"MUSCULOESQUELETICO">>>>,
    <<"rigidez articular", <<"MUSCULOESQUELETICO">>>>,
    <<"inflamación articular", <<"MUSCULOESQUELETICO">>>>,
    <<"inflamacion articular", <<"MUSCULOESQUELETICO">>>>,
    <<"limitación funcional", <<"MUSCULOESQUELETICO">>>>,
    <<"limitacion funcional", <<"MUSCULOESQUELETICO">>>>,
    <<"poliuria", <<"ENDOCRINO", "GENITOURINARIO">>>>,
    <<"polidipsia", <<"ENDOCRINO">>>>,
    <<"polifagia", <<"ENDOCRINO">>>>,
    <<"pérdida de peso", <<"ENDOCRINO">>>>,
    <<"perdida de peso", <<"ENDOCRINO">>>>,
    <<"ganancia de peso", <<"ENDOCRINO">>>>,
    <<"intolerancia al frío", <<"ENDOCRINO">>>>,
    <<"intolerancia al calor", <<"ENDOCRINO">>>>,
    <<"sudoración nocturna", <<"ENDOCRINO">>>>,
    <<"sudoracion nocturna", <<"ENDOCRINO">>>>,
    <<"lesión cutánea", <<"DERMATOLOGICO">>>>,
    <<"lesion cutanea", <<"DERMATOLOGICO">>>>,
    <<"exantema", <<"DERMATOLOGICO">>>>,
    <<"prurito", <<"DERMATOLOGICO">>>>,
    <<"úlcera", <<"DERMATOLOGICO">>>>,
    <<"ulcera", <<"DERMATOLOGICO">>>>,
    <<"alopecia", <<"DERMATOLOGICO">>>>,
    <<"equimosis", <<"HEMATOLOGICO">>>>,
    <<"petequias", <<"HEMATOLOGICO">>>>,
    <<"hematomas", <<"HEMATOLOGICO">>>>,
    <<"sangrado", <<"HEMATOLOGICO">>>>,
    <<"anemia", <<"HEMATOLOGICO">>>>,
    <<"ansiedad", <<"PSIQUIATRICO">>>>,
    <<"depresión", <<"PSIQUIATRICO">>>>,
    <<"depresion", <<"PSIQUIATRICO">>>>,
    <<"insomnio", <<"PSIQUIATRICO">>>>,
    <<"ánimo bajo", <<"PSIQUIATRICO">>>>,
    <<"animo bajo", <<"PSIQUIATRICO">>>>,
    <<"pensamientos suicidas", <<"PSIQUIATRICO">>>>,
    <<"alucinaciones", <<"PSIQUIATRICO">>>>,
    <<"delirios", <<"PSIQUIATRICO">>>>
>>

SymptomKeys == {SymptomEntries[i][1] : i \in 1..Len(SymptomEntries)}

\* SYMPTOM_TO_SUBSECTIONS[symptom]
SYMPTOM_TO_SUBSECTIONS(symptom) ==
    SymptomEntries[MaxOf({i \in 1..Len(SymptomEntries) : SymptomEntries[i][1] = symptom})][2]

UNIVERSAL_BLOCK_IDS == <<
    "B0_INTRODUCCION",
    "B1_MOTIVO_CONSULTA",
    "B2_HEA",
    "B3_ANTECEDENTES",
    "B4_MEDICACION_ALERGIAS",
    "B5_SOCIAL",
    "B6_FAMILIAR",
    "B8_CIERRE",
    "B9_COMUNICACION"
>>

\* the code points of the characters of the model in increasing order
CodePointOrder ==
    "\t\n !(),-.0123456789:;?ABCDEFGHIJKLMNOPQRSTUVWXYZ[]_abcdefghijklmnopqrstuvwxyz¡¿ÁÉÍÑÓÚÜáéíñóúü"

CodePointRank == [c \in CharsOf(CodePointOrder) |-> IndexOf(CodePointOrder, c)]

\* a < b for two str values (comparison by code points)
StrLess(a, b) ==
    LET diff == {i \in 1..Len(a) : i > Len(b) \/ CharAt(a, i) # CharAt(b, i)}
    IN  IF diff = {} THEN Len(a) < Len(b)
        ELSE LET i == MinOf(diff)
             IN  i <= Len(b)
                 /\ CodePointRank[CharAt(a, i)] < CodePointRank[CharAt(b, i)]

\* sorted(S) for a set of str
SortedStrings(S) ==
    [k \in 1..Cardinality(S) |->
        CHOOSE x \in S : Cardinality({y \in S : StrLess(y, x)}) = k - 1]

\* the orders in which a for loop may visit the elements of a Python set
IterationOrders(S) ==
    {ord \in [1..Cardinality(S) -> S] : \A i, j \in 1..Cardinality(S) : ord[i] = ord[j] => i = j}

\* the symptom keys found in a free-text field by re.search(r'\b' + key + r'\b')
SymptomsInText(text) ==
    LET lowered == Lower(text)
    IN  {key \in SymptomKeys : SearchWord(key, lowered)}

\* _extract_symptoms
extract_symptoms(case_data) ==
    (IF "sintomas_principales" \in case_data.keys
     THEN {Strip(Lower(case_data.sintomas_principales[i])) :
              i \in 1..Len(case_data.sintomas_principales)}
     ELSE {})
    \cup (IF "motivo_consulta" \in case_data.keys
          THEN SymptomsInText(case_data.motivo_consulta) ELSE {})
    \cup (IF "contexto_generado" \in case_data.keys
          THEN SymptomsInText(case_data.contexto_generado) ELSE {})

\* get_subsections_for_block: the subsections of the items of a block that
\* have the key, sorted
get_subsections_for_block(ld, block_id) ==
    LET block_items == get_items_for_block(ld, block_id)
    IN  SortedStrings({block_items[i].subsection : i \in 1..Len(block_items)} \ {Absent})

\* list_subsections
list_subsections(ld) == SortedStrings(DOMAIN ld.items_by_subsection)

\* _get_active_subsections without the fallback to all the subsections
get_active_subsections_no_fallback(ld, symptoms) ==
    UNION {Range(SYMPTOM_TO_SUBSECTIONS(symptom)) : symptom \in symptoms \cap SymptomKeys}

\* _get_active_subsections that adds the first mapped subsection of a symptom only
get_active_subsections_first_mapped(ld, symptoms) ==
    LET active_subsections ==
            {SYMPTOM_TO_SUBSECTIONS(symptom)[1] : symptom \in symptoms \cap SymptomKeys}
    IN  IF active_subsections = {} THEN Range(list_subsections(ld))
        ELSE active_subsections

\* _get_active_subsections
get_active_subsections(ld, symptoms) ==
    LET active_subsections ==
            UNION {Range(SYMPTOM_TO_SUBSECTIONS(symptom)) : symptom \in symptoms \cap SymptomKeys}
    IN  IF active_subsections = {} THEN Range(list_subsections(ld))
        ELSE active_subsections

RECURSIVE ConcatSeq(_, _, _)
\* the concatenation of lists[lo], ..., lists[hi]
ConcatSeq(lists, lo, hi) ==
    IF lo > hi THEN << >>
    ELSE IF lo = hi THEN lists[lo]
    ELSE LET mid == (lo + hi) \div 2
         IN  ConcatSeq(lists, lo, mid) \o ConcatSeq(lists, mid + 1, hi)

\* adapt_to_case that activates the whole systems-review block instead of
\* the active subsections
adapt_to_case_whole_b7(ld, case_data, order) ==
    LET symptoms == extract_symptoms(case_data)
        active_subsections_b7 == get_active_subsections(ld, symptoms)
        UniversalItems(i) == get_items_for_block(ld, UNIVERSAL_BLOCK_IDS[i])
        b7_items == get_items_for_block(ld, B7_BLOCK_ID)
        items_activos == ConcatSeq([i \in 1..Len(UNIVERSAL_BLOCK_IDS) |-> UniversalItems(i)],
                                  1, Len(UNIVERSAL_BLOCK_IDS)) \o b7_items
        blocks_points ==
            [i \in 1..Len(UNIVERSAL_BLOCK_IDS) |->
                <<UNIVERSAL_BLOCK_IDS[i], SumPoints(UniversalItems(i))>>]
            \o <<<<B7_BLOCK_ID, SumPoints(b7_items)>>>>
        max_points_case == SumPoints(items_activos)
        min_points_case == CeilPercentOf(max_points_case, ld.metadata.passing_percentage)
    IN  [items_activos |-> items_activos,
         max_points_case |-> max_points_case,
         min_points_case |-> min_points_case,
         blocks_activos |-> blocks_points,
         subsections_b7_activas |-> SortedStrings(active_subsections_b7),
         total_items_activos |-> Len(items_activos),
         sintomas_detectados |-> SortedStrings(symptoms)]

\* adapt_to_case; order is the order in which the loop over the set
\* active_subsections_b7 visits its elements
adapt_to_case(ld, case_data, order) ==
    LET symptoms == extract_symptoms(case_data)
        active_subsections_b7 == get_active_subsections(ld, symptoms)
        UniversalItems(i) == get_items_for_block(ld, UNIVERSAL_BLOCK_IDS[i])
        SubsectionItems(i) == get_items_for_subsection(ld, order[i])
        b7_items == ConcatSeq([i \in 1..Len(order) |-> SubsectionItems(i)], 1, Len(order))
        items_activos == ConcatSeq([i \in 1..Len(UNIVERSAL_BLOCK_IDS) |-> UniversalItems(i)],
                                  1, Len(UNIVERSAL_BLOCK_IDS)) \o b7_items
        blocks_points ==
            [i \in 1..Len(UNIVERSAL_BLOCK_IDS) |->
                <<UNIVERSAL_BLOCK_IDS[i], SumPoints(UniversalItems(i))>>]
            \o <<<<B7_BLOCK_ID, SumPoints(b7_items)>>>>
        max_points_case == SumPoints(items_activos)
        min_points_case == CeilPercentOf(max_points_case, ld.metadata.passing_percentage)
    IN  [items_activos |-> items_activos,
         max_points_case |-> max_points_case,
         min_points_case |-> min_points_case,
         blocks_activos |-> blocks_points,
         subsections_b7_activas |-> SortedStrings(active_subsections_b7),
         total_items_activos |-> Len(items_activos),
         sintomas_detectados |-> SortedStrings(symptoms)]

(***************************************************************************)
(* evaluator_v3: the lexicons of the cross-reference heuristics            *)
(***************************************************************************)
HABITOS_TABACO_STUDENT == <<"fumas", "fuma", "tabaco", "cigarr", "fumador">>
HABITOS_TABACO_PATIENT == <<"fumo", "fumador", "cigarr", "tabaco", "paquete">>
HABITOS_ALCOHOL_STUDENT == <<"bebes", "bebe", "beber", "alcohol", "cerveza", "vino">>
HABITOS_ALCOHOL_PATIENT == <<"bebo", "bebe", "alcohol", "cerveza", "vino", "copas", "whisky">>
FAMILIA_STUDENT == <<"antecedentes familiares", "familia", "familiares", "historia familiar">>
FAMILIA_PATIENT == <<"padre", "madre", "hermano", "hermana", "familia">>
FAMILIA_EVENTOS == <<"infarto", "ictus", "muerte", "fallecio", "murio", "cardiaco", "cardiaca">>
B2_LOCALIZACION_STUDENT == <<"donde", "que parte", "zona", "sitio", "localizacion">>
B2_LOCALIZACION_PATIENT == <<"pecho", "torax", "brazo", "espalda", "hombro", "costado">>
B2_CARACTERISTICAS_STUDENT == <<"como es", "que tipo", "que sensacion", "opresivo", "punzante", "quemazon">>
B2_CARACTERISTICAS_PATIENT == <<"opresivo", "punzante", "quemazon", "ardor">>
B2_IRRADIACION_STUDENT == <<"irrad", "se extiende", "hacia", "baja", "sube">>
B2_IRRADIACION_PATIENT == <<"irrad", "brazo", "mandibula", "cuello", "espalda", "hombro">>

(***************************************************************************)
(* evaluator_v3.EvaluatorV3                                                *)
(***************************************************************************)
\* _contains_any
contains_any(text, keywords) ==
    \E i \in 1..Len(keywords) : keywords[i] # "" /\ Contains(text, keywords[i])

\* re.search(r"\b\d+\b", text) and, with width 2, re.search(r"\b\d{2}\b", text)
SearchNumber(text, widths) ==
    \E i \in 1..Len(text) : \E j \in i..Len(text) :
        /\ (j - i + 1) \in widths
        /\ \A k \in i..j : IsDigit(CharAt(text, k))
        /\ WordBoundary(text, i)
        /\ WordBoundary(text, j + 1)

AnyWidth(text) == 1..Len(text)

\* _has_age_reference
has_age_reference(text) == SearchNumber(text, {2}) \/ Contains(text, "anos")

\* the item ids _special_match has a cross-reference heuristic for
HeuristicItemIds ==
    {"B5_006", "B5_007", "B5_008", "B5_009", "B6_001", "B6_002", "B6_008",
     "B2_004", "B2_005", "B2_006"}

\* _special_match that applies the tobacco cross-reference to every item id
special_match_any_item(item_id, student_text, patient_text) ==
    /\ contains_any(student_text, HABITOS_TABACO_STUDENT)
    /\ contains_any(patient_text, HABITOS_TABACO_PATIENT)

\* _special_match
special_match(item_id, student_text, patient_text) ==
    IF student_text = "" \/ patient_text = "" THEN FALSE
    ELSE IF item_id = "B5_006"
    THEN contains_any(student_text, HABITOS_TABACO_STUDENT)
         /\ contains_any(patient_text, HABITOS_TABACO_PATIENT)
    ELSE IF item_id = "B5_007"
    THEN LET numeric_smoke == SearchNumber(patient_text, AnyWidth(patient_text))
                              /\ contains_any(patient_text, <<"cigarr", "paquete", "dia">>)
         IN  contains_any(student_text, HABITOS_TABACO_STUDENT) /\ numeric_smoke
    ELSE IF item_id = "B5_008"
    THEN contains_any(student_text, HABITOS_ALCOHOL_STUDENT)
         /\ contains_any(patient_text, HABITOS_ALCOHOL_PATIENT)
    ELSE IF item_id = "B5_009"
    THEN LET numeric_alcohol ==
                 SearchNumber(patient_text, AnyWidth(patient_text))
                 \/ contains_any(patient_text,
                                 <<"semana", "fines", "diario", "copas", "cerveza">>)
         IN  contains_any(student_text, HABITOS_ALCOHOL_STUDENT) /\ numeric_alcohol
    ELSE IF item_id = "B6_001"
    THEN contains_any(student_text, FAMILIA_STUDENT)
         /\ contains_any(patient_text, FAMILIA_PATIENT)
    ELSE IF item_id = "B6_002"
    THEN contains_any(student_text, FAMILIA_STUDENT)
         /\ contains_any(patient_text, FAMILIA_PATIENT)
         /\ contains_any(patient_text, FAMILIA_EVENTOS)
    ELSE IF item_id = "B6_008"
    THEN contains_any(student_text, FAMILIA_STUDENT)
         /\ contains_any(patient_text, FAMILIA_EVENTOS)
         /\ has_age_reference(patient_text)
    ELSE IF item_id = "B2_004"
    THEN IF contains_any(student_text, B2_LOCALIZACION_STUDENT) THEN TRUE
         ELSE contains_any(patient_text, B2_LOCALIZACION_PATIENT)
              /\ Contains(student_text, "dolor")
    ELSE IF item_id = "B2_005"
    THEN IF contains_any(student_text, B2_CARACTERISTICAS_STUDENT) THEN TRUE
         ELSE contains_any(patient_text, B2_CARACTERISTICAS_PATIENT)
              /\ Contains(student_text, "dolor")
    ELSE IF item_id = "B2_006"
    THEN IF contains_any(student_text, B2_IRRADIACION_STUDENT) THEN TRUE
         ELSE contains_any(patient_text, B2_IRRADIACION_PATIENT)
              /\ Contains(student_text, "dolor")
    ELSE FALSE

\* pattern.search(text) for a literal pattern compiled with re.IGNORECASE
PatternSearch(pattern, text) == Contains(Lower(text), Lower(pattern))

\* str(i) for one decimal digit
DigitStr(i) == CharAt(DigitChars, i + 1)

ItemResult(item_id, label, matched, points, method, match_details) ==
    [item_id |-> item_id, label |-> label, matched |-> matched,
     points |-> points, method |-> method, match_details |-> match_details]

\* evaluate_item that tries the keywords before the compiled patterns
evaluate_item_keywords_first(ld, item, student_text, patient_text) ==
    LET item_id == item.id
        max_points == item.points
        item_label == IF item.label # Absent THEN item.label ELSE item_id
        compiled_patterns == get_compiled_regex(ld, item_id)
        regex_hits == {i \in 1..Len(compiled_patterns) :
                          PatternSearch(compiled_patterns[i], student_text)}
        keywords == item.keywords
        keyword_hits == {i \in 1..Len(keywords) :
                            SearchWord(normalize_text(keywords[i]), student_text)}
    IN  IF keyword_hits # {}
        THEN ItemResult(item_id, item_label, TRUE, max_points, "keywords",
                        "keyword: " \o keywords[MinOf(keyword_hits)])
        ELSE IF regex_hits # {}
        THEN ItemResult(item_id, item_label, TRUE, max_points, "regex",
                        "regex[" \o DigitStr(MinOf(regex_hits) - 1) \o "]: "
                            \o compiled_patterns[MinOf(regex_hits)])
        ELSE IF patient_text # "" /\ special_match(item_id, student_text, patient_text)
        THEN ItemResult(item_id, item_label, TRUE, max_points, "heuristic",
                        "override_by_patient")
        ELSE ItemResult(item_id, item_label, FALSE, 0, "none", "")

\* evaluate_item that awards half the points of an item matched by heuristic
evaluate_item_partial_credit(ld, item, student_text, patient_text) ==
    LET item_id == item.id
        max_points == item.points
        item_label == IF item.label # Absent THEN item.label ELSE item_id
        compiled_patterns == get_compiled_regex(ld, item_id)
        regex_hits == {i \in 1..Len(compiled_patterns) :
                          PatternSearch(compiled_patterns[i], student_text)}
        keywords == item.keywords
        keyword_hits == {i \in 1..Len(keywords) :
                            SearchWord(normalize_text(keywords[i]), student_text)}
    IN  IF regex_hits # {}
        THEN ItemResult(item_id, item_label, TRUE, max_points, "regex",
                        "regex[" \o DigitStr(MinOf(regex_hits) - 1) \o "]: "
                            \o compiled_patterns[MinOf(regex_hits)])
        ELSE IF keyword_hits # {}
        THEN ItemResult(item_id, item_label, TRUE, max_points, "keywords",
                        "keyword: " \o keywords[MinOf(keyword_hits)])
        ELSE IF patient_text # "" /\ special_match(item_id, student_text, patient_text)
        THEN ItemResult(item_id, item_label, TRUE, max_points \div 2, "heuristic",
                        "override_by_patient")
        ELSE ItemResult(item_id, item_label, FALSE, 0, "none", "")

\* evaluate_item
evaluate_item(ld, item, student_text, patient_text) ==
    LET item_id == item.id
        max_points == item.points
        item_label == IF item.label # Absent THEN item.label ELSE item_id
        compiled_patterns == get_compiled_regex(ld, item_id)
        regex_hits == {i \in 1..Len(compiled_patterns) :
                          PatternSearch(compiled_patterns[i], student_text)}
        keywords == item.keywords
        keyword_hits == {i \in 1..Len(keywords) :
                            SearchWord(normalize_text(keywords[i]), student_text)}
    IN  IF regex_hits # {}
        THEN ItemResult(item_id, item_label, TRUE, max_points, "regex",
                        "regex[" \o DigitStr(MinOf(regex_hits) - 1) \o "]: "
                            \o compiled_patterns[MinOf(regex_hits)])
        ELSE IF keyword_hits # {}
        THEN ItemResult(item_id, item_label, TRUE, max_points, "keywords",
                        "keyword: " \o keywords[MinOf(keyword_hits)])
        ELSE IF patient_text # "" /\ special_match(item_id, student_text, patient_text)
        THEN ItemResult(item_id, item_label, TRUE, max_points, "heuristic",
                        "override_by_patient")
        ELSE ItemResult(item_id, item_label, FALSE, 0, "none", "")

(***************************************************************************)
(* text_utils.preprocess_transcript_by_role (transcript preprocessor):     *)
(* the lines of each role by their leading speaker tag, and the normalised *)
(* text of each role.  Untagged lines are dropped unless no line of the    *)
(* transcript carries a tag, in which case the whole transcript is one     *)
(* examinee turn.                                                          *)
(***************************************************************************)
PatientTags == <<"[PACIENTE]", "[PATIENT]">>

\* " ".join(n for n in (normalize_text(line) for line in lines) if n)
NormalizedText(lines) ==
    LET NonEmpty(line) == normalize_text(line) # ""
        kept == SelectSeq(lines, NonEmpty)
    IN  Join(" ", [i \in 1..Len(kept) |-> normalize_text(kept[i])])

preprocess_transcript_by_role(transcript) ==
    LET raw == SplitLines(transcript)
        anyTag == \E i \in 1..Len(raw) : HasTag(raw[i], StudentTags \o PatientTags)
        student_lines == IF ~anyTag /\ Strip(transcript) # ""
                         THEN <<Strip(transcript)>>
                         ELSE TaggedLines(raw, StudentTags)
        patient_lines == TaggedLines(raw, PatientTags)
    IN  [student_lines |-> student_lines,
         patient_lines |-> patient_lines,
         student_text_normalized |-> NormalizedText(student_lines),
         patient_text_normalized |-> NormalizedText(patient_lines)]

(***************************************************************************)
(* evaluator_v3.EvaluatorV3.evaluate_transcript                            *)
(***************************************************************************)
\* round(x, 1) for a float x, in tenths: the exact value of x rounded to
\* the nearest tenth, ties to even
RoundToTenths(x) ==
    LET z == BigTimesSmall(x.mant, 10)
    IN  IF x.exp >= 0 THEN BigToInt(z) * 2^x.exp
        ELSE LET withGuard == BigShiftRight(z, (-x.exp) - 1)
                 q == BigShiftRight(withGuard.quot, 1).quot
                 roundUp == /\ BigIsOdd(withGuard.quot)
                            /\ (withGuard.sticky \/ BigIsOdd(q))
             IN  BigToInt(q) + (IF roundUp THEN 1 ELSE 0)

\* round(points / max_points * 100, 1) if max_points > 0 else 0, in tenths
Percentage(points, max_points) ==
    IF max_points > 0
    THEN RoundToTenths(IntTimesFloat(100, IntDivInt(points, max_points)))
    ELSE 0

\* the rollup of the results whose item is one of group_items
Rollup(results, group_items, max_points) ==
    LET ids == ItemIds(group_items)
        InGroup(r) == r.item_id \in ids
        IsMatched(r) == r.matched
        group_results == SelectSeq(results, InGroup)
        PointsOf(i) == group_results[i].points
        points == Sum([i \in 1..Len(group_results) |-> PointsOf(i)])
    IN  [max_points |-> max_points,
         points_obtained |-> points,
         items_total |-> Len(group_results),
         items_matched |-> Len(SelectSeq(group_results, IsMatched)),
         percentage |-> Percentage(points, max_points)]

\* sum(it["points"] for it in subsection_items)
SubsectionMax(subsection_items) ==
    Sum([i \in 1..Len(subsection_items) |-> subsection_items[i].points])

\* evaluate_transcript, steps 4 to 7: the rollups per block and per active
\* subsection, the verdict and the summary
score_items(ld, adapted, student_lines, student_text, items_evaluated) ==
    LET max_points_case == adapted.max_points_case
        min_points_case == adapted.min_points_case
        subsections_b7 == adapted.subsections_b7_activas
        points_obtained ==
            Sum([i \in 1..Len(items_evaluated) |-> items_evaluated[i].points])
        blocks_results ==
            [i \in 1..Len(adapted.blocks_activos) |->
                <<adapted.blocks_activos[i][1],
                  Rollup(items_evaluated,
                         get_items_for_block(ld, adapted.blocks_activos[i][1]),
                         adapted.blocks_activos[i][2])>>]
        b7_subsections_results ==
            [i \in 1..Len(subsections_b7) |->
                <<subsections_b7[i],
                  Rollup(items_evaluated,
                         get_items_for_subsection(ld, subsections_b7[i]),
                         SubsectionMax(get_items_for_subsection(ld, subsections_b7[i])))>>]
        IsMatched(r) == r.matched
        matched_count == Len(SelectSeq(items_evaluated, IsMatched))
    IN  [max_points_case |-> max_points_case,
         min_points_case |-> min_points_case,
         points_obtained |-> points_obtained,
         percentage |-> Percentage(points_obtained, max_points_case),
         passed |-> points_obtained >= min_points_case,
         subsections_b7_activas |-> subsections_b7,
         blocks |-> blocks_results,
         b7_subsections |-> b7_subsections_results,
         items_evaluated |-> items_evaluated,
         summary |-> [total_items_evaluated |-> Len(items_evaluated),
                      total_items_matched |-> matched_count,
                      match_rate |-> Percentage(matched_count, Len(items_evaluated)),
                      student_lines_count |-> Len(student_lines),
                      student_text_length |-> Len(student_text)]]

\* evaluate_transcript, step 3: every active item is evaluated on the
\* normalised text of the two roles
score_texts(ld, adapted, student_lines, student_text, student_norm, patient_norm) ==
    score_items(ld, adapted, student_lines, student_text,
                [i \in 1..Len(adapted.items_activos) |->
                    evaluate_item(ld, adapted.items_activos[i],
                                  student_norm, patient_norm)])

\* evaluate_transcript, step 2 after the lines are chosen: the texts
score_student_lines(ld, adapted, preprocessed, student_lines) ==
    score_texts(ld, adapted, student_lines, Join(" ", student_lines),
                IF preprocessed.student_text_normalized # ""
                THEN preprocessed.student_text_normalized
                ELSE normalize_text(Join(" ", student_lines)),
                preprocessed.patient_text_normalized)

\* evaluate_transcript, step 2: the examinee lines of the preprocessor or,
\* when it has none, those of extract_student_lines
score_preprocessed(ld, adapted, transcript, preprocessed) ==
    score_student_lines(ld, adapted, preprocessed,
                        IF Len(preprocessed.student_lines) # 0
                        THEN preprocessed.student_lines
                        ELSE extract_student_lines(transcript))

\* evaluate_transcript, steps 1 to 7: everything but the final dict; order
\* is the iteration order of the set of active subsections in adapt_to_case
score_transcript(ld, transcript, case_data, order) ==
    score_preprocessed(ld, adapt_to_case(ld, case_data, order), transcript,
                       preprocess_transcript_by_role(transcript))

\* the final dict with a verdict that needs more points than the threshold
evaluation_result_strict_pass(scored, case_data, caso_id, now) ==
    [caso_id |-> IF caso_id # Absent /\ caso_id # "" THEN caso_id ELSE case_data.id,
     timestamp |-> now,
     max_points_case |-> scored.max_points_case,
     min_points_case |-> scored.min_points_case,
     points_obtained |-> scored.points_obtained,
     percentage |-> scored.percentage,
     passed |-> scored.points_obtained > scored.min_points_case,
     subsections_b7_activas |-> scored.subsections_b7_activas,
     blocks |-> scored.blocks,
     b7_subsections |-> scored.b7_subsections,
     items_evaluated |-> scored.items_evaluated,
     summary |-> scored.summary]

\* evaluate_transcript, step 8: the final dict; now is datetime.now()
evaluation_result(scored, case_data, caso_id, now) ==
    [caso_id |-> IF caso_id # Absent /\ caso_id # "" THEN caso_id ELSE case_data.id,
     timestamp |-> now,
     max_points_case |-> scored.max_points_case,
     min_points_case |-> scored.min_points_case,
     points_obtained |-> scored.points_obtained,
     percentage |-> scored.percentage,
     passed |-> scored.passed,
     subsections_b7_activas |-> scored.subsections_b7_activas,
     blocks |-> scored.blocks,
     b7_subsections |-> scored.b7_subsections,
     items_evaluated |-> scored.items_evaluated,
     summary |-> scored.summary]

\* evaluate_transcript
evaluate_transcript(ld, transcript, case_data, caso_id, order, now) ==
    evaluation_result(score_transcript(ld, transcript, case_data, order),
                      case_data, caso_id, now)

(***************************************************************************)
(* Inputs: checklist documents, case descriptors and transcripts.          *)
(***************************************************************************)
ItSaludo ==
    Item("B0_001", "Saluda al paciente", "B0_INTRODUCCION", Absent, 1, FALSE,
         <<"buenos dias">>, <<"hola">>)
ItNoAplica ==
    Item("B0_002", "Se despide", "B0_INTRODUCCION", Absent, 1, TRUE,
         << >>, <<"vale", "¿?">>)
ItMotivo ==
    Item("B1_001", "Motivo de consulta", "B1_MOTIVO_CONSULTA", Absent, 250, FALSE,
         <<"que le trae">>, <<"motivo">>)
ItHabitos ==
    Item("B5_001", Absent, "B5_SOCIAL", Absent, 1, FALSE,
         <<"fum">>, <<"hábitos">>)
ItTabaco ==
    Item("B5_006", "Pregunta por tabaco", "B5_SOCIAL", Absent, 2, FALSE,
         <<"tabac(o", "TABACO">>, <<"¿Fumas?">>)
ItAlcohol ==
    Item("B5_007", "Pregunta por alcohol", "B5_SOCIAL", Absent, 1, FALSE,
         <<"copas{4294967296}", "alcohol">>, <<"alcohol">>)
ItSocialCardio ==
    Item("B5_010", "Ejercicio", "B5_SOCIAL", "CARDIOVASCULAR", 1, FALSE,
         << >>, <<"ejercicio">>)
ItSoplos ==
    Item("B7_002", "Soplos o tos", B7_BLOCK_ID, "CARDIOVASCULAR", 2, TRUE,
         << >>, <<"soplo", "tos">>)
ItCardio ==
    Item("B7_001", "Palpitaciones", B7_BLOCK_ID, "CARDIOVASCULAR", 1, FALSE,
         << >>, <<"palpitaciones">>)
ItDigestivo ==
    Item("B7_010", "Náuseas", B7_BLOCK_ID, "DIGESTIVO", 1, FALSE,
         << >>, <<"náuseas">>)
ItRespiratorio ==
    Item("B7_020", "Tos", B7_BLOCK_ID, "RESPIRATORIO", 2, FALSE,
         <<"tos">>, <<"tos">>)
ItSinSubseccion ==
    Item("B7_099", "Otros", B7_BLOCK_ID, Absent, 1, FALSE,
         << >>, <<"algo mas">>)

AllKeys == {"metadata", "blocks", "items"}

Doc(keys, passing_percentage, blocks, items) ==
    [keys |-> keys, metadata |-> [passing_percentage |-> passing_percentage],
     blocks |-> blocks, items |-> items]

BaseBlocks == <<Block("B0_INTRODUCCION", 1), Block("B5_SOCIAL", 3), Block(B7_BLOCK_ID, 4)>>
BaseItems == <<ItSaludo, ItHabitos, ItTabaco, ItCardio, ItDigestivo, ItRespiratorio>>

\* a consistent checklist: two universal blocks and three subsections
DocBase == Doc(AllKeys, Decimal(572, 1), BaseBlocks, BaseItems)
\* block B5_SOCIAL declares 5 points, its items add up to 3
DocBadSum ==
    Doc(AllKeys, Decimal(572, 1),
        <<Block("B0_INTRODUCCION", 1), Block("B5_SOCIAL", 5), Block(B7_BLOCK_ID, 4)>>,
        BaseItems)
\* a no_applicable item that carries points and a keyword of punctuation only
DocNoAplica ==
    Doc(AllKeys, Decimal(50, 0),
        <<Block("B0_INTRODUCCION", 1), Block("B5_SOCIAL", 3), Block(B7_BLOCK_ID, 2)>>,
        <<ItSaludo, ItNoAplica, ItHabitos, ItTabaco, ItCardio, ItDigestivo>>)
\* an item of a universal block that carries a subsection
DocSocialCardio ==
    Doc(AllKeys, Decimal(572, 1),
        <<Block("B5_SOCIAL", 2), Block(B7_BLOCK_ID, 2)>>,
        <<ItHabitos, ItSocialCardio, ItCardio, ItDigestivo>>)
\* an item of the systems-review block without subsection
DocSinSubseccion ==
    Doc(AllKeys, Decimal(572, 1),
        <<Block("B0_INTRODUCCION", 1), Block(B7_BLOCK_ID, 3)>>,
        <<ItSaludo, ItCardio, ItSinSubseccion, ItDigestivo>>)
\* a checklist of 250 + 1 points with passing percentage 64.4
DocMotivo ==
    Doc(AllKeys, Decimal(644, 1),
        <<Block("B1_MOTIVO_CONSULTA", 250), Block(B7_BLOCK_ID, 1)>>,
        <<ItMotivo, ItCardio>>)
\* a checklist of the systems-review block alone: a case whose symptoms map
\* to other subsections activates no item of it
DocSoloCardio == Doc(AllKeys, Decimal(572, 1), <<Block(B7_BLOCK_ID, 1)>>, <<ItCardio>>)
\* a checklist whose subsection holds a no_applicable item that carries points
DocSoplos == Doc(AllKeys, Decimal(572, 1), <<Block(B7_BLOCK_ID, 1)>>, <<ItCardio, ItSoplos>>)
\* a checklist with a pattern whose repetition count is too large
DocRepeticion == Doc(AllKeys, Decimal(572, 1), <<Block("B5_SOCIAL", 1)>>, <<ItAlcohol>>)
\* documents that fail validation
DocNoMetadata == Doc({"blocks", "items"}, Decimal(572, 1), BaseBlocks, BaseItems)
DocNoBlocks == Doc({"metadata", "items"}, Decimal(572, 1), << >>, BaseItems)
DocNoItems == Doc({"metadata", "blocks"}, Decimal(572, 1), BaseBlocks, << >>)
DocDupBlock ==
    Doc(AllKeys, Decimal(572, 1), BaseBlocks \o <<Block("B5_SOCIAL", 3)>>, BaseItems)
DocDupItem == Doc(AllKeys, Decimal(572, 1), BaseBlocks, BaseItems \o <<ItCardio>>)
DocDangling == Doc(AllKeys, Decimal(572, 1), BaseBlocks, BaseItems \o <<ItMotivo>>)
DocNoBlockId ==
    Doc(AllKeys, Decimal(572, 1), BaseBlocks,
        <<ItSaludo, [ItHabitos EXCEPT !.block_id = Absent]>>)

Docs == {DocBase, DocBadSum, DocNoAplica, DocSocialCardio, DocSinSubseccion, DocMotivo,
         DocSoloCardio, DocSoplos, DocRepeticion,
         DocNoMetadata, DocNoBlocks, DocNoItems, DocDupBlock, DocDupItem, DocDangling,
         DocNoBlockId}

\* the largest number of entries of sintomas_principales
MaxSymptoms == 2

\* the symptoms a case may list, as the case author writes them
SymptomPool == <<"dolor torácico", "sudoración", "Náuseas ", "mareo">>

Case(keys, sintomas_principales, motivo_consulta) ==
    [keys |-> keys, id |-> "caso_001", sintomas_principales |-> sintomas_principales,
     motivo_consulta |-> motivo_consulta, contexto_generado |-> ""]

\* the lists of at most MaxSymptoms symptoms of the pool, in pool order
SymptomLists ==
    {[k \in 1..Cardinality(S) |->
         SymptomPool[CHOOSE i \in S : Cardinality({j \in S : j < i}) = k - 1]] :
     S \in {T \in SUBSET (1..Len(SymptomPool)) : Cardinality(T) <= MaxSymptoms}}

Cases ==
    {Case({"id", "sintomas_principales"}, l, "") : l \in SymptomLists}
    \cup {Case({"id", "sintomas_principales", "motivo_consulta"}, << >>, ""),
          Case({"id", "motivo_consulta"}, << >>, "Tos desde hace dos horas"),
          Case({"id", "motivo_consulta", "contexto_generado"}, << >>, "Lleva horas con fiebre")}

Transcripts ==
    {"", " \n\t ",
     "[ESTUDIANTE]: ¿Fumas?\n[PACIENTE]: Sí, fumo a diario.",
     "[PACIENTE]: Fumo mucho.\n[ESTUDIANTE]: Vale.",
     "[PACIENTE]: Fumo mucho, tengo tos.",
     "[ESTUDIANTE]:\n[PACIENTE]: Tabaco y palpitaciones",
     "Hola, ¿tiene tos?",
     "[STUDENT] Buenos días\n  [ESTUDIANTE] ¿Es fumador?\n[PATIENT]: Un paquete al día"}

\* the caso_id argument (Absent when omitted) and the readings of the clock
CasoIds == {Absent, "caso_prueba_001"}
Clock == {"2025-01-15T10:00:00", "2025-01-15T10:00:01"}

\* the texts evaluate_item is called with
StudentTexts ==
    {preprocess_transcript_by_role(t).student_text_normalized : t \in Transcripts}
    \cup {"consume tabaco", "fumas", "dolor de estomago"}
PatientTexts ==
    {preprocess_transcript_by_role(t).patient_text_normalized : t \in Transcripts}

\* the texts normalize_text is called with: every string of at most
\* MaxTextLen characters over letters with and without accent, in both
\* cases, white space, punctuation and the underscore
MaxTextLen == 3
TextAlphabet == {"a", "Á", "ñ", " ", "\t", "¿", "_"}

RECURSIVE TextsOfLen(_)
TextsOfLen(n) ==
    IF n = 0 THEN {""}
    ELSE {s \o c : s \in TextsOfLen(n - 1), c \in TextAlphabet}

Texts == UNION {TextsOfLen(n) : n \in 0..MaxTextLen}

(***************************************************************************)
(* checklist_loader_v2.load_checklist_v2: the factory behind               *)
(* functools.lru_cache(maxsize=1).  A call is the tuple of its positional  *)
(* arguments: load_checklist_v2() is << >>, load_checklist_v2(None) is     *)
(* <<NoneValue>>, load_checklist_v2(p) is <<p>>.                           *)
(***************************************************************************)
NoneValue == "<None>"
DefaultPath == "data/master-checklist-v2.json"
OtherPath == "tests/checklist_no_aplica.json"
BadPath == "tests/checklist_duplicado.json"
MissingPath == "tests/no_existe.json"
Paths == {DefaultPath, OtherPath, BadPath, MissingPath}

\* checklist_path.exists() and json.load(f): the files of the model
Exists(path) == path # MissingPath
FileAt(path) ==
    IF path = DefaultPath THEN DocBase
    ELSE IF path = OtherPath THEN DocNoAplica
    ELSE DocDupItem

CallArgs == {<< >>, <<NoneValue>>} \cup {<<path>> : path \in Paths}

\* the file a call reads: the default path when path is None
checklist_path(args) ==
    IF args = << >> THEN DefaultPath
    ELSE IF args[1] = NoneValue THEN DefaultPath
    ELSE args[1]

\* the exception ChecklistLoaderV2(checklist_path) raises, "" when none
ConstructionError(path) ==
    IF ~Exists(path) THEN "Checklist no encontrado"
    ELSE init_error(FileAt(path))

\* an instance is a loader with its identity (the number of the
\* construction that made it); NoInstance is no object at all
NoInstance == [id |-> 0, loader |-> NoLoader]
NewInstance(id, path) == [id |-> id, loader |-> NewLoader(FileAt(path))]

\* the lru_cache wrapper: the one entry of the cache, keyed by the arguments
NoCache == [args |-> <<"<empty>">>, instance |-> NoInstance]
Hit(entry, args) == entry # NoCache /\ entry.args = args

\* a wrapper that also keeps the outcome of a call that raised
cache_after_call_keeping_failures(entry, args, error, instance) ==
    [args |-> args, instance |-> instance]

\* the entry after a miss: the result of the call replaces the one entry
\* (maxsize=1); a call that raises leaves the cache as it was
cache_after_call(entry, args, error, instance) ==
    IF error = "" THEN [args |-> args, instance |-> instance] ELSE entry

\* the constructions a run of the model goes through at most
MaxParses == 3

(***************************************************************************)
(* State: the loader held by the evaluator and its adapter, and the last   *)
(* call of the engine with its arguments and its outcome; the entry of the *)
(* lru_cache of load_checklist_v2, the number of constructions of a        *)
(* ChecklistLoaderV2 so far, and per checklist file the identity of the    *)
(* instance the callers were handed since the cache was last cleared (0    *)
(* when none); and per thread the evaluate_transcript call it is in, with   *)
(* the local variables of the call.                                        *)
(***************************************************************************)
VARIABLES loader, last, cache, parses, issued, calls

factory_vars == <<cache, parses, issued>>

vars == <<loader, last, cache, parses, issued, calls>>

Idle == [op |-> "idle"]

\* the threads that call one evaluator
Threads == {"worker-1", "worker-2"}

Init ==
    /\ loader = NoLoader
    /\ last = Idle
    /\ cache = NoCache
    /\ parses = 0
    /\ issued = [path \in Paths |-> 0]
    /\ calls = [t \in Threads |-> Idle]

\* ChecklistLoaderV2(checklist_path) on a file that holds the document data
Load(data) ==
    /\ last = Idle
    /\ LET error == init_error(data)
       IN  /\ loader' = IF error = "" THEN NewLoader(data) ELSE loader
           /\ last' = [op |-> "load", data |-> data, error |-> error]
    /\ UNCHANGED <<factory_vars, calls>>

\* adapt_to_case that builds items_activos in the loader's own list of items
AdaptToCase_in_place(case_data) ==
    /\ last = Idle
    /\ loader # NoLoader
    /\ \E order \in IterationOrders(get_active_subsections(loader, extract_symptoms(case_data))) :
          /\ last' = [op |-> "adapt_to_case", case_data |-> case_data,
                      ret |-> adapt_to_case(loader, case_data, order)]
          /\ loader' = [loader EXCEPT !.items = @ \o last'.ret.items_activos]
    /\ UNCHANGED <<factory_vars, calls>>

\* CaseAdapterV2.adapt_to_case(case_data)
AdaptToCase(case_data) ==
    /\ last = Idle
    /\ loader # NoLoader
    /\ \E order \in IterationOrders(get_active_subsections(loader, extract_symptoms(case_data))) :
          /\ last' = [op |-> "adapt_to_case", case_data |-> case_data,
                      ret |-> adapt_to_case(loader, case_data, order)]
          /\ UNCHANGED loader
    /\ UNCHANGED <<factory_vars, calls>>

\* EvaluatorV3.evaluate_item(item, student_text, patient_text)
EvaluateItem(item, student_text, patient_text) ==
    /\ last = Idle
    /\ loader # NoLoader
    /\ last' = [op |-> "evaluate_item", item |-> item, student_text |-> student_text,
                patient_text |-> patient_text,
                ret |-> evaluate_item(loader, item, student_text, patient_text)]
    /\ UNCHANGED loader
    /\ UNCHANGED <<factory_vars, calls>>

\* EvaluatorV3.evaluate_transcript(transcript, case_data, caso_id)
EvaluateTranscript(transcript, case_data) ==
    /\ last = Idle
    /\ loader # NoLoader
    /\ \E order \in IterationOrders(get_active_subsections(loader, extract_symptoms(case_data))) :
          LET scored == score_transcript(loader, transcript, case_data, order)
          IN  \E caso_id \in CasoIds : \E now \in Clock :
                 /\ last' = [op |-> "evaluate_transcript", transcript |-> transcript,
                             case_data |-> case_data, caso_id |-> caso_id,
                             ret |-> evaluation_result(scored, case_data, caso_id, now)]
                 /\ UNCHANGED loader
    /\ UNCHANGED <<factory_vars, calls>>

\* the items evaluate_item is called with: those of the loaded checklist
LoadedItems == IF loader = NoLoader THEN {} ELSE Range(loader.items)

\* the getters of the loader and the keys they are called with: ids of
\* blocks, subsections and items of the checklists, and ids of none
LookupFns == {"get_block", "get_items_for_block", "get_items_for_subsection",
              "get_subsections_for_block", "get_compiled_regex"}
LookupKeys == {"B5_SOCIAL", B7_BLOCK_ID, "B9_COMUNICACION", "CARDIOVASCULAR",
               "NEUROLOGICO", "B5_006", "B0_999", ""}

\* the outcome of the getter fn on key
lookup(ld, fn, key) ==
    CASE fn = "get_block" -> get_block(ld, key)
      [] fn = "get_items_for_block" -> PyList(get_items_for_block(ld, key))
      [] fn = "get_items_for_subsection" -> PyList(get_items_for_subsection(ld, key))
      [] fn = "get_subsections_for_block" -> PyList(get_subsections_for_block(ld, key))
      [] fn = "get_compiled_regex" -> PyList(get_compiled_regex(ld, key))

\* ChecklistLoaderV2.get_block(key), get_items_for_block(key), ...
Lookup(fn, key) ==
    /\ last = Idle
    /\ loader # NoLoader
    /\ last' = [op |-> "lookup", fn |-> fn, key |-> key, ret |-> lookup(loader, fn, key)]
    /\ UNCHANGED loader
    /\ UNCHANGED <<factory_vars, calls>>

\* the caller takes the outcome of the call; the engine keeps nothing of it
Return ==
    /\ last # Idle
    /\ last' = Idle
    /\ UNCHANGED loader
    /\ UNCHANGED <<factory_vars, calls>>

Next ==
    \/ \E data \in Docs : Load(data)
    \/ \E case_data \in Cases : AdaptToCase(case_data)
    \/ \E item \in LoadedItems : \E st \in StudentTexts : \E pt \in PatientTexts :
          EvaluateItem(item, st, pt)
    \/ \E t \in Transcripts : \E case_data \in Cases : EvaluateTranscript(t, case_data)
    \/ \E fn \in LookupFns : \E key \in LookupKeys : Lookup(fn, key)
    \/ Return

Spec == Init /\ [][Next]_vars

(***************************************************************************)
(* The text utilities on their own: normalize_text applied to every text.  *)
(***************************************************************************)
\* text_utils.normalize_text(text)
NormalizeText(text) ==
    /\ last = Idle
    /\ last' = [op |-> "normalize_text", text |-> text, ret |-> normalize_text(text)]
    /\ UNCHANGED loader
    /\ UNCHANGED <<factory_vars, calls>>

NextText ==
    \/ \E text \in Texts : NormalizeText(text)
    \/ Return

SpecText == Init /\ [][NextText]_vars

(***************************************************************************)
(* The factory on its own: calls of load_checklist_v2 in every form, and   *)
(* load_checklist_v2.cache_clear(), the one way to ask for a reload.       *)
(***************************************************************************)
\* load_checklist_v2(*args), served from the cache
LoadCached(args) ==
    /\ last = Idle
    /\ Hit(cache, args)
    /\ last' = [op |-> "load_checklist_v2", args |-> args, error |-> "",
                ret |-> cache.instance]
    /\ issued' = [issued EXCEPT ![checklist_path(args)] = cache.instance.id]
    /\ UNCHANGED <<loader, cache, parses, calls>>

\* load_checklist_v2(*args), a miss: the file is read and validated and a
\* new ChecklistLoaderV2 is made of it
LoadFresh(args) ==
    /\ last = Idle
    /\ ~Hit(cache, args)
    /\ parses < MaxParses
    /\ LET path == checklist_path(args)
           error == ConstructionError(path)
           instance == IF error = "" THEN NewInstance(parses + 1, path) ELSE NoInstance
       IN  /\ parses' = parses + 1
           /\ cache' = cache_after_call(cache, args, error, instance)
           /\ last' = [op |-> "load_checklist_v2", args |-> args, error |-> error,
                       ret |-> instance]
           /\ issued' = IF error = "" THEN [issued EXCEPT ![path] = instance.id]
                        ELSE issued
    /\ UNCHANGED <<loader, calls>>

\* load_checklist_v2.cache_clear()
CacheClear ==
    /\ last = Idle
    /\ cache # NoCache
    /\ cache' = NoCache
    /\ issued' = [path \in Paths |-> 0]
    /\ last' = [op |-> "cache_clear"]
    /\ UNCHANGED <<loader, parses, calls>>

NextFactory ==
    \/ \E args \in CallArgs : LoadCached(args)
    \/ \E args \in CallArgs : LoadFresh(args)
    \/ CacheClear
    \/ Return

SpecFactory == Init /\ [][NextFactory]_vars

(***************************************************************************)
(* One evaluator shared by the threads of a server: every thread runs      *)
(* evaluate_transcript on its own transcript and case, and the calls       *)
(* interleave between the statements that read the evaluator.  A call      *)
(* keeps its arguments and its local variables adapted and scored in its   *)
(* own frame.                                                              *)
(***************************************************************************)
\* EvaluatorV3(): the default checklist, loaded through the factory
InitShared ==
    /\ loader = NewLoader(FileAt(DefaultPath))
    /\ last = Idle
    /\ cache = [args |-> <<NoneValue>>, instance |-> NewInstance(1, DefaultPath)]
    /\ parses = 1
    /\ issued = [path \in Paths |-> IF path = DefaultPath THEN 1 ELSE 0]
    /\ calls = [t \in Threads |-> Idle]

\* the transcripts and cases of the concurrent calls
SharedTranscripts ==
    {"[ESTUDIANTE]: ¿Fumas?\n[PACIENTE]: Sí, fumo a diario.", "Hola, ¿tiene tos?"}
SharedCases ==
    {Case({"id", "sintomas_principales"}, << >>, ""),
     Case({"id", "sintomas_principales"}, <<"dolor torácico">>, ""),
     Case({"id", "sintomas_principales"}, <<"Náuseas ">>, "")}

\* step 1 with the adapted checklist kept in an attribute of the evaluator,
\* which every call in progress then reads
CallAdapt_shared_attribute(t, transcript, case_data) ==
    /\ calls[t] = Idle
    /\ \E order \in IterationOrders(get_active_subsections(loader, extract_symptoms(case_data))) :
          calls' = [u \in Threads |->
                      IF u = t
                      THEN [op |-> "adapted", transcript |-> transcript,
                            case_data |-> case_data, order |-> order,
                            adapted |-> adapt_to_case(loader, case_data, order)]
                      ELSE IF calls[u].op = "adapted"
                      THEN [calls[u] EXCEPT !.adapted = adapt_to_case(loader, case_data, order)]
                      ELSE calls[u]]
    /\ UNCHANGED <<loader, last, factory_vars>>

\* evaluate_transcript, step 1: adapted = self.adapter.adapt_to_case(case_data)
CallAdapt(t, transcript, case_data) ==
    /\ calls[t] = Idle
    /\ \E order \in IterationOrders(get_active_subsections(loader, extract_symptoms(case_data))) :
          calls' = [calls EXCEPT ![t] =
                      [op |-> "adapted", transcript |-> transcript,
                       case_data |-> case_data, order |-> order,
                       adapted |-> adapt_to_case(loader, case_data, order)]]
    /\ UNCHANGED <<loader, last, factory_vars>>

\* evaluate_transcript, steps 2 to 7 on the adapted checklist of the call
CallScore(t) ==
    /\ calls[t].op = "adapted"
    /\ calls' = [calls EXCEPT ![t] =
                    [op |-> "scored", transcript |-> calls[t].transcript,
                     case_data |-> calls[t].case_data, order |-> calls[t].order,
                     scored |-> score_preprocessed(loader, calls[t].adapted,
                                    calls[t].transcript,
                                    preprocess_transcript_by_role(calls[t].transcript))]]
    /\ UNCHANGED <<loader, last, factory_vars>>

\* evaluate_transcript, step 8: the result is returned to the caller
CallReturn(t) ==
    /\ calls[t].op = "scored"
    /\ \E now \in Clock :
          calls' = [calls EXCEPT ![t] =
                      [op |-> "returned", transcript |-> calls[t].transcript,
                       case_data |-> calls[t].case_data, order |-> calls[t].order,
                       ret |-> evaluation_result(calls[t].scored, calls[t].case_data,
                                                 Absent, now)]]
    /\ UNCHANGED <<loader, last, factory_vars>>

\* the caller takes the result; the thread is free for its next request
CallDone(t) ==
    /\ calls[t].op = "returned"
    /\ calls' = [calls EXCEPT ![t] = Idle]
    /\ UNCHANGED <<loader, last, factory_vars>>

NextShared ==
    \/ \E t \in Threads : \E transcript \in SharedTranscripts : \E case_data \in SharedCases :
          CallAdapt(t, transcript, case_data)
    \/ \E t \in Threads : CallScore(t)
    \/ \E t \in Threads : CallReturn(t)
    \/ \E t \in Threads : CallDone(t)

SpecShared == InitShared /\ [][NextShared]_vars

(***************************************************************************)
(* Properties of the engine                                                *)
(***************************************************************************)
\* the outcome of the last call, when it is a call of op
Called(op) == last.op = op

\* a transcript with patient-tagged text and no examinee-tagged content:
\* every line is blank or carries a speaker tag, and no examinee line has text
NoExamineeContent(transcript) ==
    LET raw == SplitLines(transcript)
    IN  /\ Len(TaggedLines(raw, PatientTags)) > 0
        /\ Len(TaggedLines(raw, StudentTags)) = 0
        /\ \A i \in 1..Len(raw) :
              Strip(raw[i]) = "" \/ HasTag(raw[i], StudentTags \o PatientTags)

\* the results of the items that have no cross-reference heuristic
PlainResults(results) ==
    {results[i] : i \in {j \in 1..Len(results) : results[j].item_id \notin HeuristicItemIds}}

\* C1: speaker isolation.  For a transcript whose text occurs only in
\* patient-tagged lines, evaluate_transcript reports every item that is not
\* in the heuristic whitelist as matched = false with method = none.
C1_SpeakerIsolation ==
    (Called("evaluate_transcript") /\ NoExamineeContent(last.transcript))
        => \A r \in PlainResults(last.ret.items_evaluated) :
              r.matched = FALSE /\ r.method = "none"

\* whether some block of the document declares a max_points that differs
\* from the sum of the points of its items that are not no_applicable
BlockSumMismatch(data) ==
    \E b \in 1..Len(data.blocks) :
        LET F(i) == IF data.items[i].block_id = data.blocks[b].block_id
                       /\ ~data.items[i].no_applicable
                    THEN data.items[i].points ELSE 0
        IN  data.blocks[b].max_points # Sum([i \in 1..Len(data.items) |-> F(i)])

\* C2: loading a checklist document in which a block's declared max_points
\* differs from the sum of the points of its applicable items fails with an
\* error, and no definition is returned.
C2_LoadRejectsBlockSumMismatch ==
    (Called("load") /\ BlockSumMismatch(last.data))
        => last.error # ""

\* ceil(max_points * passing_percentage / 100) in exact arithmetic
ExactCeilPercentOf(max_points, passing_percentage) ==
    LET den == 100 * 10^passing_percentage.decimals
        num == max_points * passing_percentage.num
    IN  (num + den - 1) \div den

\* C3: threshold consistency.  The min_points_case of every adapted
\* checklist is ceil(max_points_case * passing_percentage / 100) computed
\* exactly.
C3_ThresholdExact ==
    Called("adapt_to_case")
        => last.ret.min_points_case =
              ExactCeilPercentOf(last.ret.max_points_case,
                                 loader.metadata.passing_percentage)

\* the global total: the points of all the items that are not no_applicable
GlobalTotalPoints(ld) ==
    LET F(i) == IF ld.items[i].no_applicable THEN 0 ELSE ld.items[i].points
    IN  Sum([i \in 1..Len(ld.items) |-> F(i)])

\* C4: adaptation monotonicity.  The max_points_case of every adapted
\* checklist is at most the global total of the loaded definition.
C4_MaxAtMostGlobalTotal ==
    Called("adapt_to_case") => last.ret.max_points_case <= GlobalTotalPoints(loader)

\* the fallback path: no detected symptom of the case maps to a subsection
FallbackTaken(case_data) == extract_symptoms(case_data) \cap SymptomKeys = {}

FullActivationPoints(ld) ==
    LET F(i) == IF ld.items[i].no_applicable THEN 0
                ELSE ld.items[i].points
                     * ((IF ld.items[i].block_id \in Range(UNIVERSAL_BLOCK_IDS) THEN 1 ELSE 0)
                        + (IF ld.items[i].subsection # Absent THEN 1 ELSE 0))
    IN  Sum([i \in 1..Len(ld.items) |-> F(i)])

\* every item is in a universal block or carries a subsection, and not both
EachItemActivatedOnce(ld) ==
    \A i \in 1..Len(ld.items) :
        (ld.items[i].block_id \in Range(UNIVERSAL_BLOCK_IDS))
            # (ld.items[i].subsection # Absent)

DeclaredSubsections(ld) ==
    {ld.items[i].subsection : i \in 1..Len(ld.items)} \ {Absent}

\* the calls that return subsections_b7_activas
ReturnsSubsections == Called("adapt_to_case") \/ Called("evaluate_transcript")

\* C6: fallback policy.  When no detected symptom of the case is a key of
\* the symptom map, subsections_b7_activas is the set of all the subsections
\* declared in the definition.
C6_FallbackActivatesAll ==
    (ReturnsSubsections /\ FallbackTaken(last.case_data))
        => Range(last.ret.subsections_b7_activas) = DeclaredSubsections(loader)

\* a case that lists a symptom the map does not know activated the three
\* subsections of the checklist
C6_Witness ==
    /\ Called("adapt_to_case")
    /\ "sudoración" \in Range(last.case_data.sintomas_principales)
    /\ FallbackTaken(last.case_data)
    /\ Cardinality(Range(last.ret.subsections_b7_activas)) = 3

\* the union of the subsections mapped from the detected symptoms
MappedSubsections(case_data) ==
    UNION {Range(SYMPTOM_TO_SUBSECTIONS(symptom)) :
              symptom \in extract_symptoms(case_data) \cap SymptomKeys}

\* a list of str in strictly increasing order
IsSortedList(seq) == \A i \in 1..Len(seq) : \A j \in (i + 1)..Len(seq) : StrLess(seq[i], seq[j])

\* C7: conditional activation.  When some detected symptom is a key of the
\* symptom map, subsections_b7_activas holds exactly the subsections mapped
\* from the detected symptoms, in sorted order.
C7_ConditionalActivation ==
    (ReturnsSubsections /\ ~FallbackTaken(last.case_data))
        => /\ Range(last.ret.subsections_b7_activas) = MappedSubsections(last.case_data)
           /\ Len(last.ret.subsections_b7_activas)
                 = Cardinality(MappedSubsections(last.case_data))
           /\ IsSortedList(last.ret.subsections_b7_activas)

\* a case with an unmapped and a mapped symptom activated exactly the two
\* subsections of the mapped one, in sorted order
C7_Witness ==
    /\ Called("adapt_to_case")
    /\ last.case_data.sintomas_principales = <<"sudoración", "mareo">>
    /\ last.ret.subsections_b7_activas = <<"CARDIOVASCULAR", "NEUROLOGICO">>

\* C8: the set of the items of items_activos is the union of the items of
\* the universal blocks and the items of the active subsections; an item of
\* the systems-review block outside the active subsections is not active.
C8_ActiveItems ==
    Called("adapt_to_case")
        => LET active == Range(last.ret.subsections_b7_activas)
               items_activos == Range(last.ret.items_activos)
           IN  /\ items_activos =
                     {it \in Range(loader.items) :
                         \/ it.block_id \in Range(UNIVERSAL_BLOCK_IDS)
                         \/ it.subsection # Absent /\ it.subsection \in active}
               /\ \A it \in items_activos :
                     it.block_id = B7_BLOCK_ID => it.subsection \in active

\* an adaptation kept the universal items and left out a systems-review item
C8_Witness ==
    /\ Called("adapt_to_case")
    /\ ~FallbackTaken(last.case_data)
    /\ \E it \in Range(last.ret.items_activos) : it.block_id = "B5_SOCIAL"
    /\ \E it \in Range(last.ret.items_activos) : it.block_id = B7_BLOCK_ID
    /\ \E it \in Range(loader.items) :
          it.block_id = B7_BLOCK_ID /\ it \notin Range(last.ret.items_activos)

\* whether some compiled pattern, some keyword, the heuristic of the item
\* matches
RegexMatches(ld, item, student_text) ==
    \E i \in 1..Len(ld.compiled_regex[item.id]) :
        PatternSearch(ld.compiled_regex[item.id][i], student_text)
KeywordMatches(item, student_text) ==
    \E i \in 1..Len(item.keywords) :
        SearchWord(normalize_text(item.keywords[i]), student_text)
HeuristicHolds(item, student_text, patient_text) ==
    patient_text # "" /\ special_match(item.id, student_text, patient_text)

\* C9: matching order.  evaluate_item answers regex when a compiled pattern
\* matches; keywords when no pattern and some keyword matches; heuristic
\* when neither matches and the heuristic holds; else none, not matched.
C9_MatchingOrder ==
    Called("evaluate_item")
        => LET r == last.ret
               byRegex == RegexMatches(loader, last.item, last.student_text)
               byKeyword == KeywordMatches(last.item, last.student_text)
               byHeuristic == HeuristicHolds(last.item, last.student_text, last.patient_text)
           IN  /\ byRegex => r.method = "regex"
               /\ r.method = "keywords" <=> (~byRegex /\ byKeyword)
               /\ r.method = "heuristic" <=> (~byRegex /\ ~byKeyword /\ byHeuristic)
               /\ (~byRegex /\ ~byKeyword /\ ~byHeuristic)
                     => (r.method = "none" /\ r.matched = FALSE)

\* an item whose pattern and keyword both match was decided by the pattern
C9_Witness ==
    /\ Called("evaluate_item")
    /\ RegexMatches(loader, last.item, last.student_text)
    /\ KeywordMatches(last.item, last.student_text)
    /\ last.ret.method = "regex"

\* the item results of the last call of the evaluator, each with its item
ItemResults ==
    IF Called("evaluate_item") THEN {<<last.item, last.ret>>}
    ELSE IF Called("evaluate_transcript")
    THEN {<<loader.items_by_id[last.ret.items_evaluated[i].item_id],
            last.ret.items_evaluated[i]>> : i \in 1..Len(last.ret.items_evaluated)}
    ELSE {}

\* C10: binary scoring.  An item result carries the declared points of the
\* item when matched and 0 when not, and matched is false exactly when the
\* method is none.
C10_BinaryScoring ==
    \A p \in ItemResults :
        /\ p[2].matched => p[2].points = p[1].points
        /\ ~p[2].matched => p[2].points = 0
        /\ p[2].matched = FALSE <=> p[2].method = "none"

\* a transcript evaluation awarded the two points of an item matched by its
\* heuristic and nothing to an item that did not match
C10_Witness ==
    /\ Called("evaluate_transcript")
    /\ \E p \in ItemResults :
          p[2].method = "heuristic" /\ p[2].points = 2 /\ p[1].points = 2
    /\ \E p \in ItemResults : p[2].method = "none" /\ p[1].points > 0

\* the points of the item results of an evaluation, added up
PointsOfResults(results) == Sum([i \in 1..Len(results) |-> results[i].points])

\* C11: in every evaluation result points_obtained is the sum of the points
\* of the item results, percentage is round(points_obtained /
\* max_points_case * 100, 1), 0 when max_points_case is 0, and passed is
\* true exactly when points_obtained >= min_points_case
C11_OverallAggregation ==
    Called("evaluate_transcript") =>
        /\ last.ret.points_obtained = PointsOfResults(last.ret.items_evaluated)
        /\ last.ret.max_points_case = 0 => last.ret.percentage = 0
        /\ last.ret.max_points_case > 0 =>
              last.ret.percentage =
                  RoundToTenths(IntTimesFloat(100, IntDivInt(last.ret.points_obtained,
                                                             last.ret.max_points_case)))
        /\ last.ret.passed <=> last.ret.points_obtained >= last.ret.min_points_case

\* an evaluation that reaches the threshold exactly, with a matched item
C11_Witness ==
    /\ Called("evaluate_transcript")
    /\ last.ret.points_obtained = last.ret.min_points_case
    /\ last.ret.points_obtained > 0
    /\ last.ret.passed

\* an evaluation of a case without any active item: nothing to score
C11_NothingToScore ==
    /\ Called("evaluate_transcript")
    /\ last.ret.max_points_case = 0
    /\ last.ret.passed

\* the orders in which the interpreter can iterate over the set of active
\* subsections of a case (the order of a set of str follows the hash seed
\* of the process)
OrdersOfCase(ld, case_data) ==
    IterationOrders(get_active_subsections(ld, extract_symptoms(case_data)))

\* C12: evaluating the same checklist, case and transcript again yields the
\* identical evaluation result, the order of items_evaluated and of the block
\* and subsection entries included, whatever the iteration order of the
\* interpreter; the timestamp is the only field that may differ
C12_MatchingDeterminism ==
    Called("evaluate_transcript") =>
        \A order \in OrdersOfCase(loader, last.case_data) :
            evaluate_transcript(loader, last.transcript, last.case_data, last.caso_id,
                                order, last.ret.timestamp) = last.ret

\* C13: normalising a normalised text changes nothing:
\* normalize_text(normalize_text(x)) = normalize_text(x)
C13_NormalizationIdempotence ==
    Called("normalize_text") => normalize_text(last.ret) = last.ret

\* a text that the normalisation shortens and that keeps a word
C13_Witness ==
    /\ Called("normalize_text")
    /\ last.ret # ""
    /\ Len(last.ret) < Len(last.text)
    /\ \E i \in 1..Len(last.text) : CharAt(last.text, i) \in AccentedSet

\* C14: after a successful load the block ids are pairwise distinct, the
\* item ids are pairwise distinct, every item's block_id names a block of
\* blocks_by_id, and every item is reachable through items_by_id under its
\* id and through items_by_block under its own block_id
C14_ReferentialIntegrity ==
    loader # NoLoader =>
        /\ \A i, j \in 1..Len(loader.blocks) :
              i # j => loader.blocks[i].block_id # loader.blocks[j].block_id
        /\ \A i, j \in 1..Len(loader.items) :
              i # j => loader.items[i].id # loader.items[j].id
        /\ \A i \in 1..Len(loader.items) :
              /\ loader.items[i].block_id \in DOMAIN loader.blocks_by_id
              /\ loader.blocks_by_id[loader.items[i].block_id] \in Range(loader.blocks)
              /\ loader.items[i].id \in DOMAIN loader.items_by_id
              /\ loader.items_by_id[loader.items[i].id] = loader.items[i]
              /\ loader.items[i].block_id \in DOMAIN loader.items_by_block
              /\ loader.items[i] \in Range(loader.items_by_block[loader.items[i].block_id])

\* a load that succeeded on a checklist with a block of several items
C14_Witness ==
    /\ Called("load")
    /\ last.error = ""
    /\ loader # NoLoader
    /\ loader.items = last.data.items
    /\ \E b \in DOMAIN loader.items_by_block : Len(loader.items_by_block[b]) > 1

\* C15: a load that fails returns no checklist and leaves no trace: the
\* cache and the instances handed out are as before, the failure is not
\* kept under the arguments of the call, and any call that the cache does
\* not serve reads and validates its file anew
C15_FailedLoadAtomicity ==
    [][/\ (last'.op = "load_checklist_v2" /\ last'.error # "") =>
            /\ last'.ret = NoInstance
            /\ cache' = cache
            /\ issued' = issued
            /\ loader' = loader
            /\ ~Hit(cache', last'.args)
       /\ (last'.op = "load_checklist_v2" /\ ~Hit(cache, last'.args)) =>
            /\ parses' = parses + 1
            /\ last'.error = ConstructionError(checklist_path(last'.args))]_vars

\* a load that fails after another load has succeeded
C15_Witness ==
    /\ Called("load_checklist_v2")
    /\ last.error # ""
    /\ cache # NoCache
    /\ parses >= 2

\* C19: between two explicit reloads every successful load_checklist_v2
\* call for a checklist file returns the instance the earlier calls for that
\* file returned, whether the path is omitted, None or explicit and
\* whatever other path is loaded in between
C19_Singleton ==
    [][(/\ last'.op = "load_checklist_v2"
        /\ last'.error = ""
        /\ issued[checklist_path(last'.args)] # 0) =>
           last'.ret.id = issued[checklist_path(last'.args)]]_vars

\* the positions of the patterns of an item that do not compile
DroppedPatterns(item) ==
    {i \in 1..Len(item.regex) :
        CompileFails(item.regex[i]) \/ CompileOverflows(item.regex[i])}

\* a document with the three sections, distinct ids and valid block
\* references, and an item with a pattern that does not compile
WellFormedWithInvalidPattern(data) ==
    /\ AllKeys \subseteq data.keys
    /\ \A i, j \in 1..Len(data.blocks) :
          i # j => data.blocks[i].block_id # data.blocks[j].block_id
    /\ \A i, j \in 1..Len(data.items) : i # j => data.items[i].id # data.items[j].id
    /\ \A i \in 1..Len(data.items) :
          \E j \in 1..Len(data.blocks) : data.blocks[j].block_id = data.items[i].block_id
    /\ \E i \in 1..Len(data.items) : DroppedPatterns(data.items[i]) # {}

\* C16: a pattern that does not compile never makes the load fail; the
\* compiled list of every item holds exactly its compilable patterns in
\* declared order, the item keeps its keywords, and a valid pattern of an
\* item with a dropped one still matches at evaluation
C16_InvalidPatternTolerated ==
    /\ (Called("load") /\ WellFormedWithInvalidPattern(last.data)) =>
          /\ last.error = ""
          /\ loader.items = last.data.items
    /\ loader # NoLoader =>
          \A i \in 1..Len(loader.items) :
              LET item == loader.items[i]
                  kept == {k \in 1..Len(item.regex) : k \notin DroppedPatterns(item)}
                  compiled == get_compiled_regex(loader, item.id)
              IN  /\ Len(compiled) = Cardinality(kept)
                  /\ \A k \in 1..Len(compiled) :
                        compiled[k] =
                            item.regex[CHOOSE n \in kept :
                                          Cardinality({m \in kept : m <= n}) = k]
                  /\ loader.items_by_id[item.id].keywords = item.keywords
    /\ (Called("evaluate_item") /\ DroppedPatterns(last.item) # {}) =>
          /\ (\E k \in 1..Len(last.item.regex) :
                  /\ k \notin DroppedPatterns(last.item)
                  /\ PatternSearch(last.item.regex[k], last.student_text))
                => (last.ret.matched /\ last.ret.method = "regex")
          /\ (/\ ~\E k \in 1..Len(last.item.regex) :
                      /\ k \notin DroppedPatterns(last.item)
                      /\ PatternSearch(last.item.regex[k], last.student_text)
              /\ KeywordMatches(last.item, last.student_text))
                => (last.ret.matched /\ last.ret.method = "keywords")

\* C17: for every pattern dropped at load the state of the loaded checklist
\* holds a warning that names the item and the pattern
C17_DroppedPatternWarned ==
    loader # NoLoader =>
        \A i \in 1..Len(loader.items) :
            \A k \in DroppedPatterns(loader.items[i]) :
                <<loader.items[i].id, loader.items[i].regex[k]>>
                    \in recorded_warnings(loader)

\* the keys the index behind a getter holds
KnownKeys(ld, fn) ==
    CASE fn = "get_block" -> DOMAIN ld.blocks_by_id
      [] fn = "get_items_for_block" -> DOMAIN ld.items_by_block
      [] fn = "get_items_for_subsection" -> DOMAIN ld.items_by_subsection
      [] fn = "get_subsections_for_block" -> DOMAIN ld.items_by_block
      [] fn = "get_compiled_regex" -> DOMAIN ld.compiled_regex

\* C18 as claimed: every getter called with a key that does not exist
\* returns an empty collection, never a null value
C18_UnknownKeyEmptyCollection ==
    (Called("lookup") /\ last.key \notin KnownKeys(loader, last.fn)) =>
        (last.ret.type # "None" /\ last.ret.value = << >>)

\* C18: called with a key that does not exist, get_items_for_block,
\* get_items_for_subsection, get_subsections_for_block and
\* get_compiled_regex return an empty list and get_block returns None; the
\* loader is left unchanged
C18_UnknownKeyLookup ==
    [][(last'.op = "lookup" /\ last'.key \notin KnownKeys(loader, last'.fn)) =>
          /\ loader' = loader
          /\ last'.fn = "get_block" => last'.ret = PyNone
          /\ last'.fn # "get_block" => last'.ret = PyList(<< >>)]_vars

\* get_block called with the id of a block the checklist does not have
C18_Witness ==
    /\ Called("lookup")
    /\ last.fn = "get_block"
    /\ last.key = "B9_COMUNICACION"
    /\ last.key \notin KnownKeys(loader, last.fn)
    /\ last.ret = PyNone

\* the attributes of a loader: the data, the four indices, the patterns
LoaderFields ==
    {"metadata", "blocks", "items", "blocks_by_id", "items_by_id", "items_by_block",
     "items_by_subsection", "compiled_regex"}

\* C20: a call of adapt_to_case, evaluate_item or evaluate_transcript leaves
\* every attribute of the loader as it was: metadata, blocks, items, the
\* four indices and the compiled patterns
C20_LoaderImmutable ==
    [][last'.op \in {"adapt_to_case", "evaluate_item", "evaluate_transcript"} =>
          /\ DOMAIN loader' = DOMAIN loader
          /\ \A f \in LoaderFields : loader'[f] = loader[f]]_vars

\* an evaluation that activated and matched items of the loader
C20_Witness ==
    /\ Called("evaluate_transcript")
    /\ last.ret.summary.total_items_matched > 1
    /\ \A f \in LoaderFields : f \in DOMAIN loader
    /\ Len(last.ret.items_evaluated) <= Len(loader.items)

\* C21: in every interleaving of the evaluate_transcript calls of the
\* threads, a call returns the result it returns when it runs alone on its
\* arguments, and a step of one call writes the frame of no other call
C21_ConcurrentCallsIndependent ==
    [][/\ \A t \in Threads :
            calls'[t].op = "returned" =>
                calls'[t].ret =
                    evaluate_transcript(loader, calls'[t].transcript, calls'[t].case_data,
                                        Absent, calls'[t].order, calls'[t].ret.timestamp)
       /\ \A t, u \in Threads :
            (calls'[t] # calls[t] /\ calls'[u] # calls[u]) => t = u]_vars

\* a call returns while the other thread is between its steps on another
\* case
C21_Witness ==
    \E t, u \in Threads :
        /\ calls[t].op = "returned"
        /\ calls[u].op = "adapted"
        /\ calls[u].case_data # calls[t].case_data
        /\ calls[t].ret.points_obtained > 0

ExamineeTurns(transcript) ==
    LET raw == SplitLines(transcript)
        anyTag == \E i \in 1..Len(raw) : HasTag(raw[i], StudentTags \o PatientTags)
    IN  IF anyTag THEN TaggedLines(raw, StudentTags)
        ELSE IF Strip(transcript) = "" THEN << >>
        ELSE <<Strip(transcript)>>

\* C23: untagged-input fallback.  The examinee text evaluate_transcript
\* reports (the number of examinee lines and the length of their joined text)
\* is the whole transcript as one turn iff no line carries a recognised
\* speaker tag, and otherwise only the examinee-tagged lines in their order.
C23_UntaggedFallback ==
    Called("evaluate_transcript") =>
        /\ last.ret.summary.student_lines_count = Len(ExamineeTurns(last.transcript))
        /\ last.ret.summary.student_text_length =
              Len(Join(" ", ExamineeTurns(last.transcript)))

\* C24: adaptation keeps systems-review content.  For a checklist that
\* declares an item with a subsection and any case descriptor, the result of
\* adapt_to_case holds at least one item of a subsection, and every name in
\* subsections_b7_activas is a subsection the checklist declares.
C24_SystemsReviewKept ==
    (Called("adapt_to_case") /\ DOMAIN loader.items_by_subsection # {}) =>
        /\ \E i \in 1..Len(last.ret.items_activos) :
              last.ret.items_activos[i].subsection # Absent
        /\ \A i \in 1..Len(last.ret.subsections_b7_activas) :
              last.ret.subsections_b7_activas[i] \in DOMAIN loader.items_by_subsection

\* the entries of items_evaluated whose checklist item belongs to block b
BlockEntries(ld, results, b) ==
    LET InBlock(r) == ld.items_by_id[r.item_id].block_id = b
    IN  SelectSeq(results, InBlock)

\* the points of the checklist items behind a list of item results, those
\* of no_applicable items left out
ApplicablePoints(ld, results) ==
    LET F(i) == IF ld.items_by_id[results[i].item_id].no_applicable THEN 0
                ELSE ld.items_by_id[results[i].item_id].points
    IN  Sum([i \in 1..Len(results) |-> F(i)])

\* the rollup of a list of item results by the rule of the block rollup
RollupOf(ld, results) ==
    LET IsMatched(r) == r.matched
    IN  [max_points |-> ApplicablePoints(ld, results),
         points_obtained |-> PointsOfResults(results),
         items_total |-> Len(results),
         items_matched |-> Len(SelectSeq(results, IsMatched)),
         percentage |-> Percentage(PointsOfResults(results), ApplicablePoints(ld, results))]

\* C25: block rollup.  For every block id b of the result, max_points is the
\* sum of the points of the active items of b that are not no_applicable,
\* points_obtained, items_total and items_matched range over exactly the
\* evaluated entries whose block is b, and percentage is
\* round(points_obtained / max_points * 100, 1), 0 when max_points is 0.
C25_BlockRollup ==
    Called("evaluate_transcript") =>
        \A i \in 1..Len(last.ret.blocks) :
            last.ret.blocks[i][2] =
                RollupOf(loader, BlockEntries(loader, last.ret.items_evaluated,
                                              last.ret.blocks[i][1]))

\* the entries of items_evaluated whose checklist item belongs to subsection s
SubsectionEntries(ld, results, s) ==
    LET InSubsection(r) == ld.items_by_id[r.item_id].subsection = s
    IN  SelectSeq(results, InSubsection)

\* the block ids and the subsection names an evaluation result reports
ReportedBlocks(ret) == {ret.blocks[i][1] : i \in 1..Len(ret.blocks)}
ReportedSubsections(ret) == {ret.b7_subsections[i][1] : i \in 1..Len(ret.b7_subsections)}

\* C26: subsection rollup.  For every active subsection s the entry
\* b7_subsections[s] follows the rule of the block rollup restricted to the
\* active items of s (max_points leaves out the no_applicable items, the
\* points and the counts range over exactly the evaluated entries of s, the
\* percentage is rounded to one decimal and 0 when max_points is 0), and
\* subsection entries are reported only with the systems-review block.
C26_SubsectionRollup ==
    Called("evaluate_transcript") =>
        /\ ReportedSubsections(last.ret) = Range(last.ret.subsections_b7_activas)
        /\ ReportedSubsections(last.ret) # {} => B7_BLOCK_ID \in ReportedBlocks(last.ret)
        /\ \A i \in 1..Len(last.ret.b7_subsections) :
              last.ret.b7_subsections[i][2] =
                  RollupOf(loader, SubsectionEntries(loader, last.ret.items_evaluated,
                                                     last.ret.b7_subsections[i][1]))

\* a non-empty word or phrase w occurs in s with no word character next to
\* it on either side
OccursAsWord(w, s) ==
    /\ w # ""
    /\ \E i \in 1..Len(s) :
          /\ i + Len(w) - 1 <= Len(s)
          /\ SubSeq(s, i, i + Len(w) - 1) = w
          /\ (i = 1 \/ ~IsWordChar(CharAt(s, i - 1)))
          /\ (i + Len(w) > Len(s) \/ ~IsWordChar(CharAt(s, i + Len(w))))

\* the positions of the keywords of an item whose normalised form occurs as
\* a word or phrase in the text
KeywordOccurrences(item, text) ==
    {k \in 1..Len(item.keywords) : OccursAsWord(normalize_text(item.keywords[k]), text)}

\* C27: keyword matching is boundary-anchored.  evaluate_item reports the
\* method keywords only if the normalised form of one of the keywords of the
\* item is a non-empty word or phrase that occurs in the examinee text
\* between word boundaries, and the keyword it reports is the first such
\* keyword in declared order.
C27_KeywordBoundaryAnchored ==
    (Called("evaluate_item") /\ last.ret.method = "keywords") =>
        /\ KeywordOccurrences(last.item, last.student_text) # {}
        /\ last.ret.match_details =
              "keyword: " \o last.item.keywords[MinOf(KeywordOccurrences(last.item,
                                                                         last.student_text))]

\* C28: the heuristic is confined to its exception list.  Every item result
\* with method heuristic, of evaluate_item or within an evaluation, belongs
\* to an item id of the enumerated list, and evaluate_item returns it only
\* when the normalised examinee text and the normalised patient text are
\* both non-empty.
C28_HeuristicConfined ==
    /\ \A p \in ItemResults :
          p[2].method = "heuristic" => p[2].item_id \in HeuristicItemIds
    /\ (Called("evaluate_item") /\ last.ret.method = "heuristic") =>
          (last.student_text # "" /\ last.patient_text # "")

\* evaluate_item on an item outside the list whose patterns and keywords do
\* not match, with an examinee question and a patient answer about tobacco
C28_Witness ==
    /\ Called("evaluate_item")
    /\ last.item.id \notin HeuristicItemIds
    /\ contains_any(last.student_text, HABITOS_TABACO_STUDENT)
    /\ contains_any(last.patient_text, HABITOS_TABACO_PATIENT)
    /\ last.ret.method = "none"

\* C29: score bound.  In every evaluation result, whatever the checklist
\* (no_applicable items that carry points included) and the transcript,
\* 0 <= points_obtained <= max_points_case, and so the percentage (in
\* tenths) is at most 100.
C29_ScoreBound ==
    Called("evaluate_transcript") =>
        /\ 0 <= last.ret.points_obtained
        /\ last.ret.points_obtained <= last.ret.max_points_case
        /\ last.ret.percentage <= 1000

\* C30: no double counting.  In every adapted checklist no item id occurs
\* twice in items_activos, and in every evaluation each item is evaluated
\* once: no item id occurs twice in items_evaluated.
C30_NoDoubleCounting ==
    /\ Called("adapt_to_case") =>
          \A i, j \in 1..Len(last.ret.items_activos) :
              last.ret.items_activos[i].id = last.ret.items_activos[j].id => i = j
    /\ Called("evaluate_transcript") =>
          \A i, j \in 1..Len(last.ret.items_evaluated) :
              last.ret.items_evaluated[i].item_id = last.ret.items_evaluated[j].item_id
                  => i = j

=============================================================================
